---- MODULE Spec2Model ----
(***************************************************************************)
(* GitLane peer sync: the offline push queue (services/pushQueue.js and    *)
(* the queue slice of store/useStore.js), the wire framer and route        *)
(* dispatcher of services/peerServer.js, and the peer sync protocol of     *)
(* git/gitOps.js.                                                          *)
(***************************************************************************)
EXTENDS Integers, Sequences, FiniteSets, TLC

(***************************************************************************)
(* Bounds of the model.                                                    *)
(***************************************************************************)
NumDirs == 2        \* repositories of the device that use the conventional remote (dir 0 is peer-synced)
NumFlushers == 2    \* flushPushQueue invocations that may be in flight together
NumEnqueuers == 1   \* queuePush invocations that may be in flight together
NumCallers == 2     \* enqueueRepo calls in flight together when the queue is exercised alone
MaxEnqueues == 2    \* entries written by enqueueRepo in one behaviour
FlushDirs == 3      \* length of the longest queue a lone flush is given
NumConns == 2       \* sockets the host accepts in one behaviour
MaxRefs == 2        \* branches in the longest answer of GET /api/refs
NumRuns == 2        \* fetchFromPeer calls made one after the other
ChunkLen == 8       \* bytes per chunk where the chunks of several sockets interleave
AppDirs == 1        \* repositories pushed from where the app runs one flush at a time
MaxStarts == 3      \* startServer calls that reach createServer or its guard

VARIABLES
    storage,            \* AsyncStorage item gitlane_push_queue, as the parsed list
    clock,              \* Date.now(), which advances with every reading
    isOnline,           \* NetInfo: state.isInternetReachable !== false
    wasOnline,          \* App.tsx wasOnline.current: "null", "online" or "offline"
    pendingPushCount,   \* useStore pendingPushCount
    fl,                 \* the flushPushQueue invocations
    qp,                 \* the queuePush invocations
    pushedSince,        \* history: dirs pushed successfully since their entry was written
    conn,               \* peerServer: the accepted sockets, their buffer and their handlers
    hostRefs,           \* Version Store of the served repository: branch name -> commit id
    hostObjs,           \* Version Store of the served repository: commits it can read
    hostFiles,          \* its object files: loose commits, and pack files by their name
    writes,             \* history: ref writes made by handleReceive so far
    server,             \* peerServer: _server, _serverDir and the listeners that are bound
    localRefs,          \* Version Store of the fetching device: branch name -> commit id
    localObjs,          \* Version Store of the fetching device: commits it can read
    ft,                 \* the fetchFromPeer call in progress
    dirs,               \* names of the directories under REPOS_DIR of the fetching device
    ct,                 \* the cloneFromPeer call in progress
    pt,                 \* the pushToPeer call in progress
    runs,               \* history: the local refs at the end of each earlier fetchFromPeer
    creds               \* useStore creds.token, the stored gitlane_creds, and loadCreds

queueVars == <<storage, clock, isOnline, wasOnline, pendingPushCount, fl, qp,
               pushedSince, creds>>

serverVars == <<conn, hostRefs, hostObjs, hostFiles, writes, server>>

callVars == <<dirs, ct, pt, runs>>

syncVars == <<localRefs, localObjs, ft, callVars>>

vars == <<queueVars, serverVars, syncVars>>

Min(S) == CHOOSE x \in S : \A y \in S : x <= y

(***************************************************************************)
(* Strings. A JavaScript string is a sequence of characters, a Buffer a    *)
(* sequence of bytes. An ASCII byte and its character are the same one-    *)
(* character string; "xC3" "xA9" are the two bytes of the character        *)
(* "U+E9", and "U+FFFD" is the replacement character.                      *)
(***************************************************************************)
CR == "CR"
LF == "LF"
CRLF == <<CR, LF>>
CRLFCRLF == <<CR, LF, CR, LF>>
Digits == <<"0", "1", "2", "3", "4", "5", "6", "7", "8", "9">>
Upper == <<"A", "B", "C", "D", "E", "F", "G", "H", "I", "J", "K", "L", "M",
           "N", "O", "P", "Q", "R", "S", "T", "U", "V", "W", "X", "Y", "Z">>
Lower == <<"a", "b", "c", "d", "e", "f", "g", "h", "i", "j", "k", "l", "m",
           "n", "o", "p", "q", "r", "s", "t", "u", "v", "w", "x", "y", "z">>

IsDigit(ch) == \E k \in 1..10 : Digits[k] = ch
DigitValue(ch) == (CHOOSE k \in 1..10 : Digits[k] = ch) - 1
IsSpace(ch) == ch \in {" ", "TAB", CR, LF}

\* String.prototype.toLowerCase, one character
LowerChar(ch) ==
    IF \E k \in 1..26 : Upper[k] = ch
    THEN Lower[CHOOSE k \in 1..26 : Upper[k] = ch]
    ELSE ch
ToLowerCase(str) == [k \in 1..Len(str) |-> LowerChar(str[k])]

\* str.slice(from - 1): the characters from position from on
From(str, from) == SubSeq(str, from, Len(str))

StartsWithAt(str, pat, at) ==
    /\ at + Len(pat) - 1 <= Len(str)
    /\ \A k \in 1..Len(pat) : str[at + k - 1] = pat[k]

\* String.prototype.indexOf, as a position from 1; 0 when pat does not occur
IndexOf(str, pat) ==
    LET found == {at \in 1..Len(str) : StartsWithAt(str, pat, at)}
    IN  IF found = {} THEN 0 ELSE Min(found)

\* String.prototype.split with a non-empty separator
RECURSIVE Split(_, _)
Split(str, sep) ==
    LET at == IndexOf(str, sep) IN
    IF at = 0 THEN <<str>>
    ELSE <<SubSeq(str, 1, at - 1)>> \o Split(From(str, at + Len(sep)), sep)

\* String.prototype.trim
RECURSIVE Trim(_)
Trim(str) ==
    IF str = <<>> THEN str
    ELSE IF IsSpace(Head(str)) THEN Trim(Tail(str))
    ELSE IF IsSpace(str[Len(str)]) THEN Trim(SubSeq(str, 1, Len(str) - 1))
    ELSE str

\* the digits at the start of str, as a number
RECURSIVE DigitsValue(_, _)
DigitsValue(str, acc) ==
    IF str = <<>> \/ ~IsDigit(Head(str)) THEN acc
    ELSE DigitsValue(Tail(str), 10 * acc + DigitValue(Head(str)))

\* parseInt(str, 10) as <<n>>, and <<>> for NaN (no digit follows the leading
\* white space)
RECURSIVE ParseInt(_)
ParseInt(str) ==
    IF str # <<>> /\ IsSpace(Head(str)) THEN ParseInt(Tail(str))
    ELSE IF str = <<>> \/ ~IsDigit(Head(str)) THEN <<>>
    ELSE <<DigitsValue(str, 0)>>

\* Buffer.prototype.toString('utf8'): "xC3" "xA9" decode to one character, and an
\* incomplete or stray byte of a multi-byte character to the replacement character
Utf8Decode(bytes) ==
    LET pairAt(k) == k < Len(bytes) /\ bytes[k] = "xC3" /\ bytes[k + 1] = "xA9"
        marked == [k \in 1..Len(bytes) |->
                     IF pairAt(k) THEN "U+E9"
                     ELSE IF k > 1 /\ pairAt(k - 1) THEN "skip"
                     ELSE IF bytes[k] \in {"xC3", "xA9"} THEN "U+FFFD"
                     ELSE bytes[k]]
    IN  SelectSeq(marked, LAMBDA ch : ch # "skip")

\* Buffer.byteLength(str, 'utf8')
ByteLength(str) ==
    Len(str) + Cardinality({k \in 1..Len(str) : str[k] = "U+E9"})
             + 2 * Cardinality({k \in 1..Len(str) : str[k] = "U+FFFD"})

\* decodeURIComponent for the escapes the peers use
RECURSIVE DecodeURIComponent(_)
DecodeURIComponent(str) ==
    IF str = <<>> THEN <<>>
    ELSE IF StartsWithAt(str, <<"%", "2", "F">>, 1)
         THEN <<"/">> \o DecodeURIComponent(From(str, 4))
    ELSE IF StartsWithAt(str, <<"%", "2", "0">>, 1)
         THEN <<" ">> \o DecodeURIComponent(From(str, 4))
    ELSE <<Head(str)>> \o DecodeURIComponent(Tail(str))

HexDigits ==
    {"0", "1", "2", "3", "4", "5", "6", "7", "8", "9",
     "a", "b", "c", "d", "e", "f", "A", "B", "C", "D", "E", "F"}

\* decodeURIComponent(str) throws a URIError: a % that two hex digits do not follow
DecodeThrows(str) ==
    \E k \in 1..Len(str) :
        /\ str[k] = "%"
        /\ ~(k + 2 <= Len(str) /\ str[k + 1] \in HexDigits /\ str[k + 2] \in HexDigits)

(***************************************************************************)
(* Wire framer: parseRequest                                               *)
(***************************************************************************)
\* const [a, b] = parts: a missing element is undefined
Undefined == <<"undefined">>
Elem(parts, k) == IF k <= Len(parts) THEN parts[k] ELSE Undefined

\* headers[name.toLowerCase().trim()] = value.trim(), a later line replacing an
\* earlier one of the same name; lines without a colon after position 0 are skipped
RECURSIVE ParseHeaders(_, _)
ParseHeaders(lines, headers) ==
    IF lines = <<>> THEN headers
    ELSE LET line == Head(lines)
             idx == IndexOf(line, <<":">>)
             name == Trim(ToLowerCase(SubSeq(line, 1, idx - 1)))
             value == Trim(From(line, idx + 1))
         IN  ParseHeaders(Tail(lines),
                 IF idx > 1
                 THEN [n \in DOMAIN headers \cup {name} |->
                          IF n = name THEN value ELSE headers[n]]
                 ELSE headers)

\* query[decodeURIComponent(k)] = decodeURIComponent(v) for each non-empty k=v
RECURSIVE ParseQuery(_, _)
ParseQuery(pairs, query) ==
    IF pairs = <<>> THEN query
    ELSE LET kv == Split(Head(pairs), <<"=">>)
             k == DecodeURIComponent(kv[1])
             v == IF Len(kv) >= 2 THEN DecodeURIComponent(kv[2]) ELSE <<>>
         IN  ParseQuery(Tail(pairs),
                 IF Head(pairs) = <<>> THEN query
                 ELSE [n \in DOMAIN query \cup {k} |-> IF n = k THEN v ELSE query[n]])

NoFields == [n \in {} |-> <<>>]

\* parseRequest(raw), for a raw that holds the header terminator
ParseRequest(raw) ==
    LET headerEnd == IndexOf(raw, CRLFCRLF)
        headerSection == SubSeq(raw, 1, headerEnd - 1)
        lines == Split(headerSection, CRLF)
        first == Split(lines[1], <<" ">>)
        method == Elem(first, 1)
        fullPath == Elem(first, 2)
        headers == ParseHeaders(Tail(lines), NoFields)
        target == Split(IF fullPath \in {Undefined, <<>>} THEN <<"/">> ELSE fullPath,
                        <<"?">>)
        queryStr == IF Len(target) >= 2 THEN target[2] ELSE <<>>
    IN  [method |-> method,
         pathname |-> target[1],
         query |-> ParseQuery(Split(queryStr, <<"&">>), NoFields),
         headers |-> headers,
         body |-> From(raw, headerEnd + 4),
         contentLength |->
            ParseInt(IF <<"c","o","n","t","e","n","t","-","l","e","n","g","t","h">>
                            \in DOMAIN headers
                        /\ headers[<<"c","o","n","t","e","n","t","-","l","e","n","g","t","h">>] # <<>>
                     THEN headers[<<"c","o","n","t","e","n","t","-","l","e","n","g","t","h">>]
                     ELSE <<"0">>)]

\* parseRequest(raw) throws: a key or a value of the query does not decode
ParseRequestThrows(raw) ==
    LET headerEnd == IndexOf(raw, CRLFCRLF)
        lines == Split(SubSeq(raw, 1, headerEnd - 1), CRLF)
        fullPath == Elem(Split(lines[1], <<" ">>), 2)
        target == Split(IF fullPath \in {Undefined, <<>>} THEN <<"/">> ELSE fullPath,
                        <<"?">>)
        pairs == Split(IF Len(target) >= 2 THEN target[2] ELSE <<>>, <<"&">>)
    IN  \E p \in 1..Len(pairs) :
            /\ pairs[p] # <<>>
            /\ LET kv == Split(pairs[p], <<"=">>)
               IN  DecodeThrows(kv[1]) \/ (Len(kv) >= 2 /\ DecodeThrows(kv[2]))

\* headerSection.match(/content-length:\s*(\d+)/i): the digits of the first match,
\* <<>> when there is none
RECURSIVE SkipSpace(_)
SkipSpace(str) == IF str # <<>> /\ IsSpace(Head(str)) THEN SkipSpace(Tail(str)) ELSE str

ClMatches(header) ==
    LET lower == ToLowerCase(header)
    IN  {at \in 1..Len(header) :
            /\ StartsWithAt(lower,
                    <<"c","o","n","t","e","n","t","-","l","e","n","g","t","h",":">>, at)
            /\ LET rest == SkipSpace(From(header, at + 15))
               IN  rest # <<>> /\ IsDigit(Head(rest))}

\* const contentLength = clMatch ? parseInt(clMatch[1], 10) : 0
FramerContentLength(header) ==
    LET clMatch == ClMatches(header)
    IN  IF clMatch = {} THEN 0
        ELSE DigitsValue(SkipSpace(From(header, Min(clMatch) + 15)), 0)

\* the socket 'data' handler up to the decision: <<>> to wait for more data, or
\* <<req>>, the request to hand to dispatch
Framed(buffer) ==
    LET headerEnd == IndexOf(buffer, CRLFCRLF)
        headerSection == SubSeq(buffer, 1, headerEnd - 1)
        bodyReceived == ByteLength(From(buffer, headerEnd + 4))
    IN  IF headerEnd = 0 THEN <<>>
        ELSE IF bodyReceived < FramerContentLength(headerSection) THEN <<>>
        ELSE <<ParseRequest(buffer)>>

(***************************************************************************)
(* Version Store (isomorphic-git over the device's file system), as far as *)
(* the peer protocol uses it. Commit ids and branch names are strings.     *)
(***************************************************************************)
c1 == <<"c", "1">>
c2 == <<"c", "2">>
c3 == <<"c", "3">>
Commits == {c1, c2, c3}

\* the commit graph: c2 and c3 are two children of c1
Parents(c) == IF c = c1 THEN {} ELSE {c1}

LogDepth == 1000

\* git.log({ ref: tip, depth }): the commits walked from tip
RECURSIVE Walk(_, _)
Walk(tip, depth) ==
    IF depth = 0 THEN {}
    ELSE {tip} \cup UNION {Walk(p, depth - 1) : p \in Parents(tip)}

\* git.log rejects when the ref does not resolve or a commit it walks is not stored
LogRejects(refs, objs, ref) ==
    \/ ref \notin DOMAIN refs
    \/ ~(Walk(refs[ref], LogDepth) \subseteq objs)

\* Mutant of ForceWriteRef: a fast-forward check keeps a ref whose value is not an
\* ancestor of sha.
FastForwardWriteRef(refs, name, sha) ==
    IF name \in DOMAIN refs /\ refs[name] \notin Walk(sha, LogDepth) THEN refs
    ELSE [n \in DOMAIN refs \cup {name} |-> IF n = name THEN sha ELSE refs[n]]

\* Mutant of ForceWriteRef: the write leaves the written branch as the only one.
OnlyWriteRef(refs, name, sha) == [n \in {name} |-> sha]

\* git.writeRef({ ref: `refs/heads/${name}`, value: sha, force: true })
ForceWriteRef(refs, name, sha) ==
    [n \in DOMAIN refs \cup {name} |-> IF n = name THEN sha ELSE refs[n]]

\* Buffer.from(packfile).toString('base64') of the pack that git.packObjects builds
\* for commits: one character per commit
PackOf(commits) ==
    SelectSeq(<<"1", "2", "3">>, LAMBDA d : <<"c", d>> \in commits)

\* the commits git.indexPack makes readable from a pack written with 'base64'
PackCommits(pack) == {<<"c", pack[k]>> : k \in 1..Len(pack)}

\* git.indexPack rejects what is not a pack
PackValid(pack) == pack # <<>> /\ PackCommits(pack) \subseteq Commits

\* Mutant of IndexPack: the commits of a pack become readable and the call rejects.
IndexPackThenRejects(objs, pack) ==
    [ok |-> FALSE, objs |-> IF PackValid(pack) THEN objs \cup PackCommits(pack) ELSE objs]

\* git.indexPack({ fs, dir, filepath }): whether it resolves, and the commits readable
\* afterwards
IndexPack(objs, pack) ==
    IF PackValid(pack)
    THEN [ok |-> TRUE, objs |-> objs \cup PackCommits(pack)]
    ELSE [ok |-> FALSE, objs |-> objs]

\* the object files of a repository: its loose commits, and the files of
\* .git/objects/pack by the Date.now() of their name (now is the last reading), each
\* with the pack written to it and the pack its .idx was built from (<<>>: none yet)
NoPackFile == [pack |-> <<>>, idx |-> <<>>]

LooseOnly(objs) == [loose |-> objs, now |-> 0, files |-> <<>>]

\* the commits git.readCommit finds: the loose ones, and those of every pack file
\* whose .idx is the index of the bytes that the file holds
Readable(fls) ==
    fls.loose \cup UNION {PackCommits(fls.files[k].pack) :
                             k \in {j \in 1..Len(fls.files) :
                                       /\ PackValid(fls.files[j].pack)
                                       /\ fls.files[j].idx = fls.files[j].pack}}

\* git.listBranches: the names in order
BranchOrder == <<<<"d">>, <<"m">>, <<"U+E9">>>>
ListBranches(refs) == SelectSeq(BranchOrder, LAMBDA n : n \in DOMAIN refs)

(***************************************************************************)
(* JSON.parse of a request body: <<>> when it throws, else <<fields>>.     *)
(* Bodies are flat objects of string fields.                               *)
(***************************************************************************)
Quoted(str) == Len(str) >= 2 /\ str[1] = "\"" /\ str[Len(str)] = "\""
Unquote(str) == SubSeq(str, 2, Len(str) - 1)

RECURSIVE JsonFields(_, _)
JsonFields(pairs, fields) ==
    IF pairs = <<>> THEN <<fields>>
    ELSE LET kv == Split(Head(pairs), <<":">>)
         IN  IF Len(kv) # 2 \/ ~Quoted(kv[1]) \/ ~Quoted(kv[2]) THEN <<>>
             ELSE JsonFields(Tail(pairs),
                     [n \in DOMAIN fields \cup {Unquote(kv[1])} |->
                         IF n = Unquote(kv[1]) THEN Unquote(kv[2]) ELSE fields[n]])

JsonParse(body) ==
    IF Len(body) < 2 \/ body[1] # "{" \/ body[Len(body)] # "}" THEN <<>>
    ELSE IF Len(body) = 2 THEN <<NoFields>>
    ELSE JsonFields(Split(SubSeq(body, 2, Len(body) - 1), <<",">>), NoFields)

\* JSON.parse(body) is null
JsonNull(body) == Trim(body) = <<"n", "u", "l", "l">>

\* data.name, the empty string standing for undefined (both are falsy)
Field(data, name) == IF name \in DOMAIN data THEN data[name] ELSE <<>>

(***************************************************************************)
(* Requests the peers send                                                 *)
(***************************************************************************)
\* GET /api/health
ReqHealth ==
    <<"G", "E", "T", " ", "/", "a", "p", "i", "/", "h", "e", "a", "l", "t", "h", " ",
    "H", "T", "T", "P", "/", "1", ".", "1", CR, LF, CR, LF>>

\* GET /api/refs
ReqRefs ==
    <<"G", "E", "T", " ", "/", "a", "p", "i", "/", "r", "e", "f", "s", " ", "H", "T",
    "T", "P", "/", "1", ".", "1", CR, LF, CR, LF>>

\* GET /api/pack?ref=m
ReqPackM ==
    <<"G", "E", "T", " ", "/", "a", "p", "i", "/", "p", "a", "c", "k", "?", "r", "e",
    "f", "=", "m", " ", "H", "T", "T", "P", "/", "1", ".", "1", CR, LF, CR, LF>>

\* GET /api/pack?ref=x, a branch the host does not have
ReqPackMissing ==
    <<"G", "E", "T", " ", "/", "a", "p", "i", "/", "p", "a", "c", "k", "?", "r", "e",
    "f", "=", "x", " ", "H", "T", "T", "P", "/", "1", ".", "1", CR, LF, CR, LF>>

\* GET /nope
ReqNoRoute ==
    <<"G", "E", "T", " ", "/", "n", "o", "p", "e", " ", "H", "T", "T", "P", "/", "1",
    ".", "1", CR, LF, CR, LF>>

\* a request line with no space-separated method and path
ReqBadLine ==
    <<"G", "A", "R", "B", "A", "G", "E", CR, LF, CR, LF>>

\* GET /nope?x=%
ReqNoRoutePct ==
    <<"G", "E", "T", " ", "/", "n", "o", "p", "e", "?", "x", "=", "%", " ", "H", "T",
    "T", "P", "/", "1", ".", "1", CR, LF, CR, LF>>

\* POST /api/receive {"ref":"m","sha":"c2","pack":"12"}
ReqRecvC2 ==
    <<"P", "O", "S", "T", " ", "/", "a", "p", "i", "/", "r", "e", "c", "e", "i", "v",
    "e", " ", "H", "T", "T", "P", "/", "1", ".", "1", CR, LF, "C", "o", "n", "t", "e",
    "n", "t", "-", "L", "e", "n", "g", "t", "h", ":", " ", "3", "4", CR, LF, CR, LF,
    "{", "\"", "r", "e", "f", "\"", ":", "\"", "m", "\"", ",", "\"", "s", "h", "a",
    "\"", ":", "\"", "c", "2", "\"", ",", "\"", "p", "a", "c", "k", "\"", ":", "\"",
    "1", "2", "\"", "}">>

\* POST /api/receive {"ref":"m","sha":"c3","pack":"13"}
ReqRecvC3 ==
    <<"P", "O", "S", "T", " ", "/", "a", "p", "i", "/", "r", "e", "c", "e", "i", "v",
    "e", " ", "H", "T", "T", "P", "/", "1", ".", "1", CR, LF, "C", "o", "n", "t", "e",
    "n", "t", "-", "L", "e", "n", "g", "t", "h", ":", " ", "3", "4", CR, LF, CR, LF,
    "{", "\"", "r", "e", "f", "\"", ":", "\"", "m", "\"", ",", "\"", "s", "h", "a",
    "\"", ":", "\"", "c", "3", "\"", ",", "\"", "p", "a", "c", "k", "\"", ":", "\"",
    "1", "3", "\"", "}">>

\* POST /api/receive {"ref":"m"}
ReqRecvNoSha ==
    <<"P", "O", "S", "T", " ", "/", "a", "p", "i", "/", "r", "e", "c", "e", "i", "v",
    "e", " ", "H", "T", "T", "P", "/", "1", ".", "1", CR, LF, "C", "o", "n", "t", "e",
    "n", "t", "-", "L", "e", "n", "g", "t", "h", ":", " ", "1", "1", CR, LF, CR, LF,
    "{", "\"", "r", "e", "f", "\"", ":", "\"", "m", "\"", "}">>

\* POST /api/receive for the branch named U+E9
ReqRecvUtf8 ==
    <<"P", "O", "S", "T", " ", "/", "a", "p", "i", "/", "r", "e", "c", "e", "i", "v",
    "e", " ", "H", "T", "T", "P", "/", "1", ".", "1", CR, LF, "C", "o", "n", "t", "e",
    "n", "t", "-", "L", "e", "n", "g", "t", "h", ":", " ", "3", "5", CR, LF, CR, LF,
    "{", "\"", "r", "e", "f", "\"", ":", "\"", "xC3", "xA9", "\"", ",", "\"", "s", "h",
    "a", "\"", ":", "\"", "c", "2", "\"", ",", "\"", "p", "a", "c", "k", "\"", ":",
    "\"", "1", "2", "\"", "}">>
\* POST /api/receive of {"ref":"d","sha":"c3","pack":"13"}
ReqRecvD3 ==
    <<"P", "O", "S", "T", " ", "/", "a", "p", "i", "/", "r", "e", "c", "e", "i", "v",
    "e", " ", "H", "T", "T", "P", "/", "1", ".", "1", CR, LF, "C", "o", "n", "t", "e",
    "n", "t", "-", "L", "e", "n", "g", "t", "h", ":", " ", "3", "4", CR, LF, CR, LF,
    "{", "\"", "r", "e", "f", "\"", ":", "\"", "d", "\"", ",", "\"", "s", "h", "a",
    "\"", ":", "\"", "c", "3", "\"", ",", "\"", "p", "a", "c", "k", "\"", ":", "\"",
    "1", "3", "\"", "}">>
\* POST /api/receive of {"ref":"m","sha":"c2","pack":"9"}, whose pack is not a pack
ReqRecvBadPack ==
    <<"P", "O", "S", "T", " ", "/", "a", "p", "i", "/", "r", "e", "c", "e", "i", "v",
    "e", " ", "H", "T", "T", "P", "/", "1", ".", "1", CR, LF, "C", "o", "n", "t", "e",
    "n", "t", "-", "L", "e", "n", "g", "t", "h", ":", " ", "3", "3", CR, LF, CR, LF,
    "{", "\"", "r", "e", "f", "\"", ":", "\"", "m", "\"", ",", "\"", "s", "h", "a",
    "\"", ":", "\"", "c", "2", "\"", ",", "\"", "p", "a", "c", "k", "\"", ":", "\"",
    "9", "\"", "}">>
\* POST /api/receive of null
ReqRecvNull ==
    <<"P", "O", "S", "T", " ", "/", "a", "p", "i", "/", "r", "e", "c", "e", "i", "v",
    "e", " ", "H", "T", "T", "P", "/", "1", ".", "1", CR, LF, "C", "o", "n", "t", "e",
    "n", "t", "-", "L", "e", "n", "g", "t", "h", ":", " ", "4", CR, LF, CR, LF, "n",
    "u", "l", "l">>
\* POST /api/receive of {oops
ReqRecvBad ==
    <<"P", "O", "S", "T", " ", "/", "a", "p", "i", "/", "r", "e", "c", "e", "i", "v",
    "e", " ", "H", "T", "T", "P", "/", "1", ".", "1", CR, LF, "C", "o", "n", "t", "e",
    "n", "t", "-", "L", "e", "n", "g", "t", "h", ":", " ", "5", CR, LF, CR, LF, "{",
    "o", "o", "p", "s">>
GET == <<"G", "E", "T">>
POST == <<"P", "O", "S", "T">>
PathHealth == <<"/", "a", "p", "i", "/", "h", "e", "a", "l", "t", "h">>
PathRefs == <<"/", "a", "p", "i", "/", "r", "e", "f", "s">>
PathPack == <<"/", "a", "p", "i", "/", "p", "a", "c", "k">>
PathReceive == <<"/", "a", "p", "i", "/", "r", "e", "c", "e", "i", "v", "e">>

(***************************************************************************)
(* Route dispatcher and handlers                                           *)
(***************************************************************************)
\* as history: accepted is the _serverDir that the startServer call of the accepting
\* listener set, ran the _serverDir that each dispatched request's handler read
FreeConn == [state |-> "free", stream |-> <<>>, pos |-> 0, buffer |-> <<>>,
             reqs |-> <<>>, hs |-> <<>>, out |-> <<>>, accepted |-> "null", ran |-> <<>>]

\* a handler that has reached its first await
Handler(route, pc, ref, sha, pack) ==
    [route |-> route, pc |-> pc, ref |-> ref, sha |-> sha, pack |-> pack,
     branches |-> <<>>, commits |-> {}, start |-> writes, wseq |-> 0, path |-> 0]

\* respond(socket, status, statusText, data): socket.end(msg); on a socket that was
\* ended already nothing more is sent
Respond(cn, status, error, data) ==
    IF cn.state = "open"
    THEN [cn EXCEPT !.state = "closed",
                    !.out = Append(@, [status |-> status, error |-> error, data |-> data])]
    ELSE cn

NoData == [n \in {} |-> <<>>]

\* `No route: ${method} ${pathname}`
NoRoute(method, pathname) ==
    <<"N", "o", " ", "r", "o", "u", "t", "e", ":", " ">> \o method \o <<" ">> \o pathname

\* dispatch(socket, req) up to its return: the synchronous part of the handler
Dispatch(cn, req) ==
    LET c0 == [cn EXCEPT !.reqs = Append(@, req), !.ran = Append(@, server.dir)]
        data == JsonParse(req.body)
    IN  IF req.method = GET /\ req.pathname = PathHealth
        THEN Respond(c0, 200, "", NoData)
        ELSE IF req.method = GET /\ req.pathname = PathRefs
        THEN [c0 EXCEPT !.hs = Append(@, Handler("refs", "listBranches", <<>>, <<>>, <<>>))]
        ELSE IF req.method = GET /\ req.pathname = PathPack
        THEN [c0 EXCEPT !.hs = Append(@,
                Handler("pack", "log",
                        IF Field(req.query, <<"r", "e", "f">>) = <<>>
                        THEN <<"H", "E", "A", "D">>
                        ELSE req.query[<<"r", "e", "f">>], <<>>, <<>>))]
        ELSE IF req.method = POST /\ req.pathname = PathReceive
        THEN IF JsonNull(req.body)
             THEN \* const { ref, sha, pack } = data throws a TypeError
                  [c0 EXCEPT !.hs = Append(@, Handler("receive", "rejected", <<>>, <<>>, <<>>))]
             ELSE IF data = <<>>
             THEN Respond(c0, 400, "Invalid JSON body", NoData)
             ELSE IF \/ Field(data[1], <<"r", "e", "f">>) = <<>>
                     \/ Field(data[1], <<"s", "h", "a">>) = <<>>
                     \/ Field(data[1], <<"p", "a", "c", "k">>) = <<>>
             THEN Respond(c0, 400, "Missing ref/sha/pack", NoData)
             ELSE [c0 EXCEPT !.hs = Append(@,
                     Handler("receive", "exists",
                             data[1][<<"r", "e", "f">>], data[1][<<"s", "h", "a">>],
                             data[1][<<"p", "a", "c", "k">>]))]
        ELSE Respond(c0, 404, "No route", [error |-> NoRoute(req.method, req.pathname)])

\* TcpSocket.createServer callback: a socket is accepted, its buffer is ''
Accept(c, stream) ==
    /\ server.bound # {}
    /\ conn[c].state = "free"
    /\ conn' = [conn EXCEPT ![c] = [FreeConn EXCEPT !.state = "open", !.stream = stream,
                                                    !.accepted = server.dir]]
    /\ UNCHANGED <<queueVars, hostRefs, hostObjs, hostFiles, writes, server, syncVars>>

\* Mutant of BufferOf: one buffer, that of the first socket, serves every socket.
SharedBuffer(cs, c) == cs[1].buffer

\* let buffer = '' in the createServer callback: the buffer of socket c's closure
BufferOf(cs, c) == cs[c].buffer

\* socket.on('data'): the next n bytes of the stream arrive as one chunk
Data(c, n) ==
    /\ conn[c].state = "open"
    /\ n >= 1
    /\ conn[c].pos + n <= Len(conn[c].stream)
    /\ LET chunk == SubSeq(conn[c].stream, conn[c].pos + 1, conn[c].pos + n)
           buffer == BufferOf(conn, c) \o Utf8Decode(chunk)
           framed == Framed(buffer)
           c0 == [conn[c] EXCEPT !.pos = @ + n]
       IN  conn' = [conn EXCEPT ![c] =
                      IF framed = <<>>
                      THEN [c0 EXCEPT !.buffer = buffer]
                      ELSE IF ParseRequestThrows(buffer)
                      THEN \* the URIError leaves the 'data' handler before buffer = ''
                           [c0 EXCEPT !.buffer = buffer]
                      ELSE Dispatch([c0 EXCEPT !.buffer = <<>>], framed[1])]
    /\ UNCHANGED <<queueVars, hostRefs, hostObjs, hostFiles, writes, server, syncVars>>

\* the same chunk where the 'data' handler throws, in a build whose global error
\* handler treats an exception that no one caught as fatal: the app's process ends,
\* and with it the listener, every socket and every handler
DataFatal(c, n) ==
    /\ conn[c].state = "open"
    /\ n >= 1
    /\ conn[c].pos + n <= Len(conn[c].stream)
    /\ LET chunk == SubSeq(conn[c].stream, conn[c].pos + 1, conn[c].pos + n)
           buffer == BufferOf(conn, c) \o Utf8Decode(chunk)
       IN  /\ Framed(buffer) # <<>>
           /\ ParseRequestThrows(buffer)
    /\ conn' = [d \in DOMAIN conn |->
                  IF conn[d].state = "free" THEN conn[d]
                  ELSE [conn[d] EXCEPT !.state = "closed", !.hs = <<>>,
                                       !.pos = IF d = c THEN @ + n ELSE @]]
    /\ server' = [server EXCEPT !.listener = 0, !.dir = "null", !.bound = {},
                                !.op = "fatal", !.arg = "null",
                                !.before = [listener |-> server.listener, dir |-> server.dir,
                                            bound |-> server.bound]]
    /\ UNCHANGED <<queueVars, hostRefs, hostObjs, hostFiles, writes, syncVars>>

\* socket.on('error'): console.warn; the socket is closed, nothing else changes
SocketError(c) ==
    /\ conn[c].state = "open"
    /\ conn' = [conn EXCEPT ![c].state = "closed"]
    /\ UNCHANGED <<queueVars, hostRefs, hostObjs, hostFiles, writes, server, syncVars>>

Awaiting(c, h, route, pc) ==
    /\ h \in 1..Len(conn[c].hs)
    /\ conn[c].hs[h].route = route
    /\ conn[c].hs[h].pc = pc

\* an await of a Version Store or file system call rejects: the handler's promise
\* rejects, and dispatch, which returned it without awaiting it, has left its try
HandlerFails(c, h) ==
    /\ h \in 1..Len(conn[c].hs)
    /\ conn[c].hs[h].pc \in {"listBranches", "log", "packObjects", "exists", "writeFile",
                             "indexPack", "writeRef"}
    /\ conn' = [conn EXCEPT ![c].hs[h].pc = "rejected"]
    /\ UNCHANGED <<queueVars, hostRefs, hostObjs, hostFiles, writes, server, syncVars>>

\* handleRefs: const branches = await git.listBranches({ fs, dir })
RefsList(c, h) ==
    /\ Awaiting(c, h, "refs", "listBranches")
    /\ conn' = [conn EXCEPT ![c].hs[h] =
                  [@ EXCEPT !.pc = "resolve", !.branches = ListBranches(hostRefs)]]
    /\ UNCHANGED <<queueVars, hostRefs, hostObjs, hostFiles, writes, server, syncVars>>

\* handleRefs: resolveRef of every branch (a name that fails is dropped); respond
RefsRespond(c, h) ==
    /\ Awaiting(c, h, "refs", "resolve")
    /\ LET names == SelectSeq(conn[c].hs[h].branches, LAMBDA n : n \in DOMAIN hostRefs)
           refs == [k \in 1..Len(names) |-> [name |-> names[k], sha |-> hostRefs[names[k]]]]
       IN  conn' = [conn EXCEPT ![c] =
                      Respond([@ EXCEPT !.hs[h].pc = "done"], 200, "", [refs |-> refs])]
    /\ UNCHANGED <<queueVars, hostRefs, hostObjs, hostFiles, writes, server, syncVars>>

\* handlePack: const commits = await git.log({ fs, dir, ref, depth: 1000 })
PackLog(c, h) ==
    /\ Awaiting(c, h, "pack", "log")
    /\ conn' = [conn EXCEPT ![c].hs[h] =
                  IF LogRejects(hostRefs, hostObjs, @.ref)
                  THEN [@ EXCEPT !.pc = "rejected"]
                  ELSE [@ EXCEPT !.pc = "packObjects",
                                 !.commits = Walk(hostRefs[conn[c].hs[h].ref], LogDepth)]]
    /\ UNCHANGED <<queueVars, hostRefs, hostObjs, hostFiles, writes, server, syncVars>>

\* handlePack: 404 on no commits, else await git.packObjects; respond
PackRespond(c, h) ==
    /\ Awaiting(c, h, "pack", "packObjects")
    /\ LET hd == conn[c].hs[h]
       IN  conn' = [conn EXCEPT ![c] =
                      IF hd.commits = {}
                      THEN Respond([@ EXCEPT !.hs[h].pc = "done"], 404,
                                   "No commits on branch", NoData)
                      ELSE Respond([@ EXCEPT !.hs[h].pc = "done"], 200, "",
                                   [pack |-> PackOf(hd.commits), ref |-> hd.ref,
                                    commits |-> Cardinality(hd.commits)])]
    /\ UNCHANGED <<queueVars, hostRefs, hostObjs, hostFiles, writes, server, syncVars>>

\* handleReceive: await RNFS.exists(packDir), and RNFS.mkdir(packDir) when it is not there
\* then packPath = `${packDir}/pack-recv-${Date.now()}.pack` and writeFile is called.
\* Date.now() reads a later millisecond than its last reading, or the same one while
\* the write that followed that reading is still awaited
PackPaths ==
    {hostFiles.now + 1}
    \cup {s \in {hostFiles.now} :
             \E c \in DOMAIN conn : \E h \in 1..Len(conn[c].hs) :
                conn[c].hs[h].pc = "writeFile" /\ conn[c].hs[h].path = s}

RecvExists(c, h) ==
    /\ Awaiting(c, h, "receive", "exists")
    /\ \E s \in PackPaths :
          /\ conn' = [conn EXCEPT ![c].hs[h] = [@ EXCEPT !.pc = "writeFile", !.path = s]]
          /\ hostFiles' = IF s > hostFiles.now
                          THEN [hostFiles EXCEPT !.now = s, !.files = Append(@, NoPackFile)]
                          ELSE hostFiles
    /\ UNCHANGED <<queueVars, hostRefs, hostObjs, writes, server, syncVars>>

\* handleReceive: await RNFS.writeFile(packPath, pack, 'base64'): the file holds
\* these bytes, whatever it held; a .idx built from other bytes no longer fits it
RecvWriteFile(c, h) ==
    /\ Awaiting(c, h, "receive", "writeFile")
    /\ hostFiles' = [hostFiles EXCEPT !.files[conn[c].hs[h].path].pack = conn[c].hs[h].pack]
    /\ hostObjs' = Readable(hostFiles')
    /\ conn' = [conn EXCEPT ![c].hs[h].pc = "indexPack"]
    /\ UNCHANGED <<queueVars, hostRefs, writes, server, syncVars>>

\* handleReceive: await git.indexPack({ fs, dir, filepath: packPath }): the bytes
\* that the file holds now are indexed
RecvIndexPack(c, h) ==
    /\ Awaiting(c, h, "receive", "indexPack")
    /\ LET path == conn[c].hs[h].path
           held == hostFiles.files[path].pack
           r == IndexPack(hostObjs, held)
       IN  /\ hostObjs' = r.objs
           /\ hostFiles' = IF r.ok THEN [hostFiles EXCEPT !.files[path].idx = held]
                           ELSE hostFiles
           /\ conn' = [conn EXCEPT ![c].hs[h].pc = IF r.ok THEN "writeRef" ELSE "rejected"]
    /\ UNCHANGED <<queueVars, hostRefs, writes, server, syncVars>>

\* handleReceive: await git.writeRef({ ..., value: sha, force: true })
RecvWriteRef(c, h) ==
    /\ Awaiting(c, h, "receive", "writeRef")
    /\ hostRefs' = ForceWriteRef(hostRefs, conn[c].hs[h].ref, conn[c].hs[h].sha)
    /\ writes' = writes + 1
    /\ conn' = [conn EXCEPT ![c].hs[h] = [@ EXCEPT !.pc = "respond", !.wseq = writes + 1]]
    /\ UNCHANGED <<queueVars, hostObjs, hostFiles, server, syncVars>>

\* handleReceive: respond(socket, 200, 'OK', { ok: true, ref, sha })
RecvRespond(c, h) ==
    /\ Awaiting(c, h, "receive", "respond")
    /\ conn' = [conn EXCEPT ![c] =
                  Respond([@ EXCEPT !.hs[h].pc = "done"], 200, "",
                          [ok |-> TRUE, ref |-> @.hs[h].ref, sha |-> @.hs[h].sha])]
    /\ UNCHANGED <<queueVars, hostRefs, hostObjs, hostFiles, writes, server, syncVars>>

\* no socket has been accepted and nothing is stored
NoRefs == [n \in {} |-> c1]

\* let _server = null; let _serverDir = null. A listener is the number of the
\* createServer call that made it; bound holds the listeners not yet closed.
NoServer == [listener |-> 0, dir |-> "null", bound |-> {}, made |-> 0,
             op |-> "none", arg |-> "null",
             before |-> [listener |-> 0, dir |-> "null", bound |-> {}]]

\* Mutant of ServerActive: the guard never finds a server.
NeverActive(sv) == FALSE

\* if (_server)
ServerActive(sv) == sv.listener # 0

\* _server, _serverDir and the bound listeners, as the last call found them
Snapshot(sv) == [listener |-> sv.listener, dir |-> sv.dir, bound |-> sv.bound]

\* startServer(dir, port, onEvent): if (_server) return; else _serverDir = dir and
\* TcpSocket.createServer(...).listen(...), which binds the port when ok. When the
\* port cannot be bound the listener emits 'error', whose handler logs the message
\* and calls onEvent('error', ...): it assigns neither _server nor _serverDir.
StartServer(dir, ok) ==
    /\ server.made < MaxStarts
    /\ server' = IF ServerActive(server)
                 THEN [server EXCEPT !.op = "start", !.arg = dir, !.before = Snapshot(server)]
                 ELSE [server EXCEPT !.listener = server.made + 1,
                                     !.dir = dir,
                                     !.bound = IF ok THEN @ \cup {server.made + 1} ELSE @,
                                     !.made = @ + 1,
                                     !.op = "start", !.arg = dir,
                                     !.before = Snapshot(server)]
    /\ UNCHANGED <<queueVars, conn, hostRefs, hostObjs, hostFiles, writes, syncVars>>

\* stopServer(): if (_server) { _server.close(); _server = null; _serverDir = null }
StopServer ==
    /\ server' = IF ServerActive(server)
                 THEN [server EXCEPT !.listener = 0, !.dir = "null",
                                     !.bound = @ \ {server.listener},
                                     !.op = "stop", !.arg = "null",
                                     !.before = Snapshot(server)]
                 ELSE [server EXCEPT !.op = "stop", !.arg = "null",
                                     !.before = Snapshot(server)]
    /\ UNCHANGED <<queueVars, conn, hostRefs, hostObjs, hostFiles, writes, syncVars>>

ServerIdle ==
    /\ conn = <<>>
    /\ hostRefs = NoRefs
    /\ hostObjs = {}
    /\ hostFiles = LooseOnly({})
    /\ writes = 0
    /\ server = NoServer

(***************************************************************************)
(* Peer Sync Client: fetchFromPeer(dir, peerUrl). What the peer answers is *)
(* an input of each step.                                                  *)
(***************************************************************************)
IdleFetch == [pc |-> "idle", refs |-> <<>>, i |-> 0, pack |-> <<>>,
              before |-> NoRefs, failed |-> {}, wrote |-> {}, result |-> <<>>]

\* the calls pushToPeer and cloneFromPeer before they are made
IdlePush == [pc |-> "idle", branch |-> <<>>, sha |-> <<>>, commits |-> {}, pack |-> <<>>,
             c |-> 0, beforeRefs |-> NoRefs, beforeObjs |-> {}]

IdleClone == [pc |-> "idle", name |-> "", existed |-> FALSE, checked |-> FALSE,
              error |-> "",
              head |-> <<>>, tree |-> <<>>, checkout |-> "none",
              beforeRefs |-> NoRefs, beforeObjs |-> {}]

CallsIdle ==
    /\ ct = IdleClone
    /\ pt = IdlePush
    /\ runs = <<>>

SyncIdle ==
    /\ localRefs = NoRefs
    /\ localObjs = {}
    /\ ft = IdleFetch
    /\ dirs = {}
    /\ CallsIdle

\* the end of one iteration of `for (const ref of refs)`: the next ref, or return refs
NextRef(t) ==
    IF t.i < Len(t.refs)
    THEN [t EXCEPT !.pc = "readCommit", !.i = @ + 1, !.pack = <<>>]
    ELSE [t EXCEPT !.pc = "returned", !.pack = <<>>, !.result = t.refs]

\* Mutant of Caught: the failure of one ref leaves the loop.
Rethrown(t) == [t EXCEPT !.pc = "threw", !.failed = @ \cup {t.refs[t.i].name}]

\* catch (e) { console.warn(...) } around one ref, and `if (!packResp.ok) continue`
Caught(t) == NextRef([t EXCEPT !.failed = @ \cup {t.refs[t.i].name}])

\* fetchFromPeer(dir, peerUrl) is called
FetchStart ==
    /\ ft.pc = "idle"
    /\ ft' = [ft EXCEPT !.pc = "refs"]
    /\ UNCHANGED <<queueVars, serverVars, localRefs, localObjs, callVars>>

\* const resp = await fetch(`${peerUrl}/api/refs`) up to `await ensurePeerTemp()`.
\* answer is <<>> when fetch or resp.json() rejects, else <<[status, refs]>>.
FetchRefs(answer) ==
    /\ ft.pc = "refs"
    /\ ft' = IF answer = <<>> \/ answer[1].status # 200 \/ answer[1].refs = <<>>
             THEN [ft EXCEPT !.pc = "threw"]
             ELSE [ft EXCEPT !.pc = "ensurePeerTemp", !.refs = answer[1].refs,
                             !.before = localRefs]
    /\ UNCHANGED <<queueVars, serverVars, localRefs, localObjs, callVars>>

\* the peer has accepted the connection and never answers: fetch(url) is called
\* without a signal or a timer, so its promise never settles and the call stays at
\* this await
FetchHangs ==
    /\ ft.pc \in {"refs", "fetchPack"}
    /\ ft' = [ft EXCEPT !.pc = "hung"]
    /\ UNCHANGED <<queueVars, serverVars, localRefs, localObjs, callVars>>

\* await ensurePeerTemp()
FetchEnsurePeerTemp(ok) ==
    /\ ft.pc = "ensurePeerTemp"
    /\ ft' = IF ok THEN NextRef(ft) ELSE [ft EXCEPT !.pc = "threw"]
    /\ UNCHANGED <<queueVars, serverVars, localRefs, localObjs, callVars>>

\* await git.readCommit({ fs, dir, oid: ref.sha }): rejects when the commit is not stored
FetchReadCommit ==
    /\ ft.pc = "readCommit"
    /\ ft' = [ft EXCEPT !.pc = IF ft.refs[ft.i].sha \in localObjs
                               THEN "writeRefHave" ELSE "fetchPack"]
    /\ UNCHANGED <<queueVars, serverVars, localRefs, localObjs, callVars>>

\* the commit is stored: await git.writeRef(..., force: true); continue. A rejection
\* is swallowed by the inner catch and the pack is downloaded.
FetchWriteRefHave(ok) ==
    /\ ft.pc = "writeRefHave"
    /\ IF ok
       THEN /\ localRefs' = ForceWriteRef(localRefs, ft.refs[ft.i].name, ft.refs[ft.i].sha)
            /\ ft' = NextRef([ft EXCEPT !.wrote = @ \cup {ft.refs[ft.i].name}])
       ELSE /\ localRefs' = localRefs
            /\ ft' = [ft EXCEPT !.pc = "fetchPack"]
    /\ UNCHANGED <<queueVars, serverVars, localObjs, callVars>>

\* const packResp = await fetch(`${peerUrl}/api/pack?ref=...`); if (!packResp.ok)
\* continue; const { pack } = await packResp.json().
\* answer is <<>> when fetch or packResp.json() rejects, else <<[status, pack]>>.
FetchPack(answer) ==
    /\ ft.pc = "fetchPack"
    /\ ft' = IF answer = <<>> \/ answer[1].status # 200
             THEN Caught(ft)
             ELSE [ft EXCEPT !.pc = "writeFile", !.pack = answer[1].pack]
    /\ UNCHANGED <<queueVars, serverVars, localRefs, localObjs, callVars>>

\* RNFS.exists / RNFS.mkdir of the pack directory, RNFS.writeFile(packPath, pack, 'base64')
FetchWriteFile(ok) ==
    /\ ft.pc = "writeFile"
    /\ ft' = IF ok THEN [ft EXCEPT !.pc = "indexPack"] ELSE Caught(ft)
    /\ UNCHANGED <<queueVars, serverVars, localRefs, localObjs, callVars>>

\* await git.indexPack({ fs, dir, filepath: packPath })
FetchIndexPack ==
    /\ ft.pc = "indexPack"
    /\ localObjs' = IndexPack(localObjs, ft.pack).objs
    /\ ft' = IF IndexPack(localObjs, ft.pack).ok
             THEN [ft EXCEPT !.pc = "writeRef"]
             ELSE Caught(ft)
    /\ UNCHANGED <<queueVars, serverVars, localRefs, callVars>>

\* await git.writeRef({ ..., ref: `refs/heads/${ref.name}`, value: ref.sha, force: true })
FetchWriteRef(ok) ==
    /\ ft.pc = "writeRef"
    /\ IF ok
       THEN /\ localRefs' = ForceWriteRef(localRefs, ft.refs[ft.i].name, ft.refs[ft.i].sha)
            /\ ft' = NextRef([ft EXCEPT !.wrote = @ \cup {ft.refs[ft.i].name}])
       ELSE /\ localRefs' = localRefs
            /\ ft' = Caught(ft)
    /\ UNCHANGED <<queueVars, serverVars, localObjs, callVars>>

(***************************************************************************)
(* Peer Sync Client: cloneFromPeer(peerUrl, repoName). localRefs and       *)
(* localObjs are the store of the directory repoName.                      *)
(***************************************************************************)
\* Mutant of AlreadyExists: the directory is never found.
NeverExists(ds, name) == FALSE

\* const exists = await RNFS.exists(dir)
AlreadyExists(ds, name) == name \in ds

\* Mutant of CheckoutRef: the last ref listed.
CheckoutLast(refs) == refs[Len(refs)].name

\* git.checkout({ fs, dir, ref: refs[0].name })
CheckoutRef(refs) == refs[1].name

\* git.init({ fs, dir, defaultBranch: 'main' }): HEAD names the branch main
Main == <<"m">>

\* cloneFromPeer(peerUrl, repoName) is called
CloneStart(name) ==
    /\ ct.pc = "idle"
    /\ ct' = [ct EXCEPT !.pc = "ensureReposDir", !.name = name,
                        !.existed = name \in dirs,
                        !.beforeRefs = localRefs, !.beforeObjs = localObjs]
    /\ UNCHANGED <<queueVars, serverVars, localRefs, localObjs, ft, dirs, pt, runs>>

\* await ensureReposDir()
CloneEnsureReposDir(ok) ==
    /\ ct.pc = "ensureReposDir"
    /\ ct' = IF ok THEN [ct EXCEPT !.pc = "exists"]
             ELSE [ct EXCEPT !.pc = "threw", !.error = "fs"]
    /\ UNCHANGED <<queueVars, serverVars, localRefs, localObjs, ft, dirs, pt, runs>>

\* const exists = await RNFS.exists(dir); if (exists) throw new Error('... already
\* exists locally')
CloneExists ==
    /\ ct.pc = "exists"
    /\ ct' = IF AlreadyExists(dirs, ct.name)
             THEN [ct EXCEPT !.pc = "threw", !.error = "already exists locally",
                             !.checked = TRUE]
             ELSE [ct EXCEPT !.pc = "mkdir", !.checked = TRUE]
    /\ UNCHANGED <<queueVars, serverVars, localRefs, localObjs, ft, dirs, pt, runs>>

\* await RNFS.mkdir(dir)
CloneMkdir(ok) ==
    /\ ct.pc = "mkdir"
    /\ IF ok
       THEN /\ dirs' = dirs \cup {ct.name}
            /\ ct' = [ct EXCEPT !.pc = "init"]
       ELSE /\ dirs' = dirs
            /\ ct' = [ct EXCEPT !.pc = "threw", !.error = "fs"]
    /\ UNCHANGED <<queueVars, serverVars, localRefs, localObjs, ft, pt, runs>>

\* await git.init({ fs, dir, defaultBranch: 'main' }): a repository without branches
\* in a new directory; a repository that is there keeps its refs and objects
CloneInit(ok) ==
    /\ ct.pc = "init"
    /\ IF ok
       THEN /\ localRefs' = IF ct.existed THEN localRefs ELSE NoRefs
            /\ localObjs' = IF ct.existed THEN localObjs ELSE {}
            /\ ct' = [ct EXCEPT !.pc = "fetch", !.head = Main]
       ELSE /\ UNCHANGED <<localRefs, localObjs>>
            /\ ct' = [ct EXCEPT !.pc = "threw", !.error = "fs"]
    /\ UNCHANGED <<queueVars, serverVars, ft, dirs, pt, runs>>

\* const refs = await fetchFromPeer(dir, peerUrl): the call is made
CloneFetch ==
    /\ ct.pc = "fetch"
    /\ ft.pc = "idle"
    /\ ct' = [ct EXCEPT !.pc = "fetching"]
    /\ ft' = [ft EXCEPT !.pc = "refs"]
    /\ UNCHANGED <<queueVars, serverVars, localRefs, localObjs, dirs, pt, runs>>

\* fetchFromPeer has returned refs, or has thrown and cloneFromPeer throws with it
CloneFetched ==
    /\ ct.pc = "fetching"
    /\ ft.pc \in {"returned", "threw"}
    /\ ct' = IF ft.pc = "threw" THEN [ct EXCEPT !.pc = "threw", !.error = "fetch"]
             ELSE IF Len(ft.result) > 0 THEN [ct EXCEPT !.pc = "checkout"]
             ELSE [ct EXCEPT !.pc = "done"]
    /\ UNCHANGED <<queueVars, serverVars, localRefs, localObjs, ft, dirs, pt, runs>>

\* await git.checkout({ fs, dir, ref: refs[0].name }).catch(() => {}); return.
\* checkout rejects when ok is false or the branch does not resolve to a stored commit
CloneCheckout(ok) ==
    /\ ct.pc = "checkout"
    /\ LET ref == CheckoutRef(ft.result)
       IN  ct' = IF ok /\ ref \in DOMAIN localRefs /\ localRefs[ref] \in localObjs
                 THEN [ct EXCEPT !.pc = "done", !.checkout = "ok", !.head = ref,
                                 !.tree = localRefs[ref]]
                 ELSE [ct EXCEPT !.pc = "done", !.checkout = "failed"]
    /\ UNCHANGED <<queueVars, serverVars, localRefs, localObjs, ft, dirs, pt, runs>>

(***************************************************************************)
(* Peer Sync Client: pushToPeer(dir, peerUrl, branch), against the host    *)
(***************************************************************************)
\* a string as the bytes fetch sends
RECURSIVE Utf8Encode(_)
Utf8Encode(str) ==
    IF str = <<>> THEN <<>>
    ELSE (IF Head(str) = "U+E9" THEN <<"xC3", "xA9">>
          ELSE IF Head(str) = "U+FFFD" THEN <<"xEF", "xBF", "xBD">>
          ELSE <<Head(str)>>) \o Utf8Encode(Tail(str))

\* String(n) of a natural number
RECURSIVE ToDigits(_)
ToDigits(n) ==
    IF n < 10 THEN <<Digits[n + 1]>>
    ELSE ToDigits(n \div 10) \o <<Digits[(n % 10) + 1]>>

\* JSON.stringify({ ref, sha, pack }) of strings that need no escape
JsonStringify(ref, sha, pack) ==
    <<"{", "\"", "r", "e", "f", "\"", ":", "\"">> \o ref
    \o <<"\"", ",", "\"", "s", "h", "a", "\"", ":", "\"">> \o sha
    \o <<"\"", ",", "\"", "p", "a", "c", "k", "\"", ":", "\"">> \o pack
    \o <<"\"", "}">>

\* the bytes of fetch(`${peerUrl}/api/receive`, { method: 'POST', headers, body })
PostReceive(body) ==
    POST \o <<" ">> \o PathReceive \o <<" ", "H", "T", "T", "P", "/", "1", ".", "1">> \o CRLF
    \o <<"C", "o", "n", "t", "e", "n", "t", "-", "T", "y", "p", "e", ":", " ", "a", "p", "p",
         "l", "i", "c", "a", "t", "i", "o", "n", "/", "j", "s", "o", "n">> \o CRLF
    \o <<"C", "o", "n", "t", "e", "n", "t", "-", "L", "e", "n", "g", "t", "h", ":", " ">>
    \o ToDigits(Len(Utf8Encode(body))) \o CRLFCRLF \o Utf8Encode(body)

\* pushToPeer(dir, peerUrl, branch) is called
PushStart(branch) ==
    /\ pt.pc = "idle"
    /\ pt' = [pt EXCEPT !.pc = "resolveRef", !.branch = branch,
                        !.beforeRefs = hostRefs, !.beforeObjs = hostObjs]
    /\ UNCHANGED <<queueVars, serverVars, localRefs, localObjs, ft, dirs, ct, runs>>

\* const sha = await git.resolveRef({ fs, dir, ref: branch })
PushResolveRef ==
    /\ pt.pc = "resolveRef"
    /\ pt' = IF pt.branch \in DOMAIN localRefs
             THEN [pt EXCEPT !.pc = "log", !.sha = localRefs[pt.branch]]
             ELSE [pt EXCEPT !.pc = "threw"]
    /\ UNCHANGED <<queueVars, serverVars, localRefs, localObjs, ft, dirs, ct, runs>>

\* const commits = await git.log({ fs, dir, ref: branch, depth: 1000 })
PushLog ==
    /\ pt.pc = "log"
    /\ pt' = IF LogRejects(localRefs, localObjs, pt.branch)
             THEN [pt EXCEPT !.pc = "threw"]
             ELSE [pt EXCEPT !.pc = "packObjects",
                             !.commits = Walk(localRefs[pt.branch], LogDepth)]
    /\ UNCHANGED <<queueVars, serverVars, localRefs, localObjs, ft, dirs, ct, runs>>

\* await git.packObjects({ fs, dir, oids, write: false }); toString('base64')
PushPackObjects(ok) ==
    /\ pt.pc = "packObjects"
    /\ pt' = IF ok THEN [pt EXCEPT !.pc = "send", !.pack = PackOf(pt.commits)]
             ELSE [pt EXCEPT !.pc = "threw"]
    /\ UNCHANGED <<queueVars, serverVars, localRefs, localObjs, ft, dirs, ct, runs>>

\* fetch(`${peerUrl}/api/receive`, ...): the host accepts socket c and the request
\* is on its way
PushSend(c) ==
    /\ pt.pc = "send"
    /\ server.bound # {}
    /\ conn[c].state = "free"
    /\ conn' = [conn EXCEPT ![c] =
                  [FreeConn EXCEPT !.state = "open", !.accepted = server.dir,
                       !.stream = PostReceive(JsonStringify(pt.branch, pt.sha, pt.pack))]]
    /\ pt' = [pt EXCEPT !.pc = "awaiting", !.c = c]
    /\ UNCHANGED <<queueVars, hostRefs, hostObjs, hostFiles, writes, server, localRefs, localObjs,
                   ft, dirs, ct, runs>>

\* the response has arrived: if (!resp.ok) throw new Error(...); return resp.json()
PushResponse ==
    /\ pt.pc = "awaiting"
    /\ conn[pt.c].out # <<>>
    /\ pt' = [pt EXCEPT !.pc = IF conn[pt.c].out[1].status = 200
                               THEN "resolved" ELSE "threw"]
    /\ UNCHANGED <<queueVars, serverVars, localRefs, localObjs, ft, dirs, ct, runs>>

\* fetch rejects: the connection is lost before a response has arrived
PushTransportError ==
    /\ pt.pc = "awaiting"
    /\ pt' = [pt EXCEPT !.pc = "threw"]
    /\ UNCHANGED <<queueVars, serverVars, localRefs, localObjs, ft, dirs, ct, runs>>

\* PeerScreen.doFetch once more, after a call has ended
FetchAgain ==
    /\ ft.pc \in {"returned", "threw"}
    /\ Len(runs) + 1 < NumRuns
    /\ runs' = Append(runs, localRefs)
    /\ ft' = [IdleFetch EXCEPT !.pc = "refs"]
    /\ UNCHANGED <<queueVars, serverVars, localRefs, localObjs, dirs, ct, pt>>

\* what a peer in state (refs, objs) answers to GET /api/refs
RefsAnswerOf(refs) ==
    LET names == ListBranches(refs)
    IN  <<[status |-> 200,
           refs |-> [k \in 1..Len(names) |-> [name |-> names[k], sha |-> refs[names[k]]]]]>>

\* what a peer in state (refs, objs) answers to GET /api/pack?ref=name; <<>> when
\* the request ends without a response
PackAnswerOf(refs, objs, name) ==
    IF LogRejects(refs, objs, name) THEN <<>>
    ELSE <<[status |-> 200, pack |-> PackOf(Walk(refs[name], LogDepth))]>>

(***************************************************************************)
(* Offline push queue: data                                                *)
(***************************************************************************)
Repos == 0..NumDirs
AllDirs == 1..FlushDirs

\* RemoteScreen: thisRepo.url.startsWith('peer:')
IsPeer(dir) == dir = 0
Flushers == 1..NumFlushers
Enqueuers == 1..NumEnqueuers

\* RemoteScreen.handlePush: dir.split('/').pop()
RepoNameOf(dir) == dir

\* enqueueRepo: { id: Date.now().toString(), dir, repoName, queuedAt: Date.now() }
NewEntry(dir, repoName, now) ==
    [id |-> now, dir |-> dir, repoName |-> repoName, queuedAt |-> now]

\* enqueueRepo: queue.find(item => item.dir === dir)
HasDir(queue, dir) == \E k \in 1..Len(queue) : queue[k].dir = dir

\* Mutant of Enqueued: no deduplication by dir.
EnqueuedNoDedupe(queue, dir, repoName, now) ==
    Append(queue, NewEntry(dir, repoName, now))

\* enqueueRepo: the list it persists, or the list it read when it returns early
Enqueued(queue, dir, repoName, now) ==
    IF HasDir(queue, dir) THEN queue
    ELSE Append(queue, NewEntry(dir, repoName, now))

\* Mutant of Dequeued: drops the head of the queue whatever its dir.
DequeuedHead(queue, dir) == IF queue = <<>> THEN queue ELSE Tail(queue)

\* dequeueRepo: queue.filter(item => item.dir !== dir)
Dequeued(queue, dir) == SelectSeq(queue, LAMBDA item : item.dir # dir)

\* a flushPushQueue invocation: its position, its locals token, queue, item (as the
\* index i), succeeded, failed and remaining, the list dequeueRepo read (deq), and as
\* history the pushes it made (log), the invocations running when it started and the
\* kinds of storage failure it met (faults)
IdleFlush == [pc |-> "idle", queue |-> <<>>, i |-> 0, deq |-> <<>>,
              succeeded |-> 0, failed |-> 0, remaining |-> 0,
              log |-> <<>>, with |-> {}, faults |-> {}, token |-> "null"]

IdleEnq == [pc |-> "idle", dir |-> 0, queue |-> <<>>]

FreeFlushers == {f \in DOMAIN fl : fl[f].pc \in {"idle", "done"}}
FreeEnqueuers == {e \in DOMAIN qp : qp[e].pc = "idle"}
RunningFlushers == DOMAIN fl \ FreeFlushers

(***************************************************************************)
(* Offline push queue: operations                                          *)
(***************************************************************************)
\* creds: { name: '', email: '', token: '' }; nothing stored; loadCreds not running.
\* As history: the token that the last saveCreds replaced and the clock at that call.
NoCreds == [token |-> "", saved |-> "", pc |-> "idle", prev |-> "", since |-> 0]

\* Mutant of TokenOf: the flush pushes without a token.
NoToken(cr) == "null"

\* const token = get().creds.token || null
TokenOf(cr) == IF cr.token = "" THEN "null" ELSE cr.token

\* flushPushQueue is called: its locals before the first await
StartFlush(f) ==
    fl' = [g \in DOMAIN fl |->
             IF g = f
             THEN [IdleFlush EXCEPT !.pc = "getQueue", !.with = RunningFlushers,
                                    !.token = TokenOf(creds)]
             ELSE [fl[g] EXCEPT !.with = IF fl[g].pc = "done" THEN @ \ {f} ELSE @]]

\* Mutant of CameOnline: every event that reports the device online counts.
ReportsOnline(was, online) == online

\* else if (wasOnline.current === false && online)
CameOnline(was, online) == was = "offline" /\ online

\* App.tsx NetInfo listener (and the listener of useNetworkStatus, which is
\* given the same event)
NetEvent(online) ==
    /\ isOnline' = online
    /\ wasOnline' = IF online THEN "online" ELSE "offline"
    /\ IF CameOnline(wasOnline, online)
       THEN /\ FreeFlushers # {}
            /\ StartFlush(Min(FreeFlushers))
       ELSE UNCHANGED fl
    /\ UNCHANGED <<storage, clock, pendingPushCount, qp, pushedSince, serverVars, syncVars, creds>>

\* RemoteScreen.handleFlush: the queue banner is pressed
HandleFlush ==
    /\ isOnline
    /\ pendingPushCount > 0
    /\ FreeFlushers # {}
    /\ StartFlush(Min(FreeFlushers))
    /\ UNCHANGED <<storage, clock, isOnline, wasOnline, pendingPushCount, qp, pushedSince, serverVars, syncVars, creds>>

\* the for loop moves to the next item, or leaves the loop
NextItem(r) ==
    IF r.i < Len(r.queue)
    THEN [r EXCEPT !.pc = "push", !.i = r.i + 1, !.deq = <<>>]
    ELSE [r EXCEPT !.pc = "finalRead", !.deq = <<>>]

\* Mutant of LoopCatch: the loop body has no try/catch, the rejection leaves
\* flushPushQueue.
LoopRethrow(r) == [r EXCEPT !.pc = "rejected"]

\* flushPushQueue: catch { failed++ }
LoopCatch(r) == NextItem([r EXCEPT !.failed = @ + 1])

\* Mutant of GetQueue: the queue is never read back from storage.
GetQueueForgets(stored, ok) == <<>>

\* getQueue: raw ? JSON.parse(raw) : [], and [] from the catch when getItem rejects
GetQueue(stored, ok) == IF ok THEN stored ELSE <<>>

\* const queue = await getQueue()
FlushGetQueue(f) ==
    /\ fl[f].pc = "getQueue"
    /\ fl' = [fl EXCEPT ![f] =
                IF storage = <<>>
                THEN [@ EXCEPT !.pc = "finalRead"]
                ELSE [@ EXCEPT !.pc = "push", !.queue = storage, !.i = 1]]
    /\ UNCHANGED <<storage, clock, isOnline, wasOnline, pendingPushCount, qp, pushedSince, serverVars, syncVars, creds>>

\* saveCreds(creds): set({ creds }); await AsyncStorage.setItem(CREDS_KEY, ...)
SaveCreds(token) ==
    /\ creds.token # token
    /\ creds' = [creds EXCEPT !.token = token, !.saved = token,
                              !.prev = creds.token, !.since = clock]
    /\ UNCHANGED <<storage, clock, isOnline, wasOnline, pendingPushCount, fl, qp,
                   pushedSince, serverVars, syncVars>>

\* loadCreds: const raw = await AsyncStorage.getItem(CREDS_KEY); if (raw) set(...)
LoadCreds ==
    /\ creds.pc = "load"
    /\ creds' = [creds EXCEPT !.pc = "idle",
                              !.token = IF creds.saved # "" THEN creds.saved ELSE @]
    /\ UNCHANGED <<storage, clock, isOnline, wasOnline, pendingPushCount, fl, qp,
                   pushedSince, serverVars, syncVars>>

\* await pushRepo(item.dir, token) resolves
FlushPushOk(f) ==
    /\ fl[f].pc = "push"
    /\ isOnline
    /\ fl' = [fl EXCEPT ![f] = [@ EXCEPT !.pc = "deqRead",
                                         !.log = Append(@, [dir |-> fl[f].queue[fl[f].i].dir,
                                                            ok |-> TRUE,
                                                            token |-> fl[f].token])]]
    /\ pushedSince' = pushedSince \cup {fl[f].queue[fl[f].i].dir}
    /\ UNCHANGED <<storage, clock, isOnline, wasOnline, pendingPushCount, qp, serverVars, syncVars, creds>>

\* await pushRepo(item.dir, token) rejects: catch { failed++ }
FlushPushFail(f) ==
    /\ fl[f].pc = "push"
    /\ fl' = [fl EXCEPT ![f] = LoopCatch([@ EXCEPT
                                            !.log = Append(@, [dir |-> fl[f].queue[fl[f].i].dir,
                                                               ok |-> FALSE,
                                                               token |-> fl[f].token])])]
    /\ UNCHANGED <<storage, clock, isOnline, wasOnline, pendingPushCount, qp, pushedSince, serverVars, syncVars, creds>>

\* dequeueRepo: const queue = await getQueue()
FlushDeqRead(f) ==
    /\ fl[f].pc = "deqRead"
    /\ fl' = [fl EXCEPT ![f] = [@ EXCEPT !.pc = "deqWrite", !.deq = storage]]
    /\ UNCHANGED <<storage, clock, isOnline, wasOnline, pendingPushCount, qp, pushedSince, serverVars, syncVars, creds>>

\* dequeueRepo: await AsyncStorage.setItem(QUEUE_KEY, updated); succeeded++
FlushDeqWrite(f) ==
    /\ fl[f].pc = "deqWrite"
    /\ storage' = Dequeued(fl[f].deq, fl[f].queue[fl[f].i].dir)
    /\ fl' = [fl EXCEPT ![f] = NextItem([@ EXCEPT !.succeeded = @ + 1])]
    /\ UNCHANGED <<clock, isOnline, wasOnline, pendingPushCount, qp,
                   pushedSince, serverVars, syncVars, creds>>

\* const remaining = await getQueue()
FlushFinalRead(f) ==
    /\ fl[f].pc = "finalRead"
    /\ fl' = [fl EXCEPT ![f] = [@ EXCEPT !.pc = "finalSet",
                                         !.remaining = Len(storage)]]
    /\ UNCHANGED <<storage, clock, isOnline, wasOnline, pendingPushCount, qp, pushedSince, serverVars, syncVars, creds>>

\* set({ pendingPushCount: remaining.length }); return { succeeded, failed }
FlushFinalSet(f) ==
    /\ fl[f].pc = "finalSet"
    /\ pendingPushCount' = fl[f].remaining
    /\ fl' = [fl EXCEPT ![f] = [@ EXCEPT !.pc = "done"]]
    /\ UNCHANGED <<storage, clock, isOnline, wasOnline, qp,
                   pushedSince, serverVars, syncVars, creds>>

\* const queue = await getQueue(), AsyncStorage.getItem rejecting: the loop gets []
FlushGetQueueFail(f) ==
    /\ fl[f].pc = "getQueue"
    /\ fl' = [fl EXCEPT ![f] = [@ EXCEPT !.pc = "finalRead",
                                         !.queue = GetQueue(storage, FALSE),
                                         !.faults = @ \cup {"read"}]]
    /\ UNCHANGED <<storage, clock, isOnline, wasOnline, pendingPushCount, qp, pushedSince, serverVars, syncVars, creds>>

\* dequeueRepo: const queue = await getQueue(), AsyncStorage.getItem rejecting
FlushDeqReadFail(f) ==
    /\ fl[f].pc = "deqRead"
    /\ fl' = [fl EXCEPT ![f] = [@ EXCEPT !.pc = "deqWrite",
                                         !.deq = GetQueue(storage, FALSE),
                                         !.faults = @ \cup {"read"}]]
    /\ UNCHANGED <<storage, clock, isOnline, wasOnline, pendingPushCount, qp, pushedSince, serverVars, syncVars, creds>>

\* dequeueRepo: await AsyncStorage.setItem(QUEUE_KEY, updated) rejects: nothing is
\* stored, dequeueRepo rejects and the loop's catch counts the entry as failed
FlushDeqWriteFail(f) ==
    /\ fl[f].pc = "deqWrite"
    /\ fl' = [fl EXCEPT ![f] = LoopCatch([@ EXCEPT !.faults = @ \cup {"write"}])]
    /\ UNCHANGED <<storage, clock, isOnline, wasOnline, pendingPushCount, qp, pushedSince, serverVars, syncVars, creds>>

\* const remaining = await getQueue(), AsyncStorage.getItem rejecting
FlushFinalReadFail(f) ==
    /\ fl[f].pc = "finalRead"
    /\ fl' = [fl EXCEPT ![f] = [@ EXCEPT !.pc = "finalSet",
                                         !.remaining = Len(GetQueue(storage, FALSE)),
                                         !.faults = @ \cup {"read"}]]
    /\ UNCHANGED <<storage, clock, isOnline, wasOnline, pendingPushCount, qp, pushedSince, serverVars, syncVars, creds>>

\* RemoteScreen.handlePush, offline and not a peer repository: queuePush(dir, repoName)
HandlePushOffline(dir) ==
    /\ ~IsPeer(dir)
    /\ ~isOnline
    /\ clock < MaxEnqueues
    /\ FreeEnqueuers # {}
    /\ qp' = [qp EXCEPT ![Min(FreeEnqueuers)] =
                [pc |-> "enqRead", dir |-> dir, queue |-> <<>>]]
    /\ UNCHANGED <<storage, clock, isOnline, wasOnline, pendingPushCount, fl,
                   pushedSince, serverVars, syncVars, creds>>

\* RemoteScreen.handlePush, online and not a peer repository: pushRepo(dir, token),
\* which touches neither the queue nor the pending count
HandlePushOnline(dir, ok) ==
    /\ ~IsPeer(dir)
    /\ isOnline
    /\ pushedSince' = IF ok THEN pushedSince \cup {dir} ELSE pushedSince
    /\ UNCHANGED <<storage, clock, isOnline, wasOnline, pendingPushCount, fl, qp, serverVars, syncVars, creds>>

\* RemoteScreen.handlePush on a peer repository: pushToPeer, never the queue
HandlePushPeer(dir) ==
    /\ IsPeer(dir)
    /\ UNCHANGED <<queueVars, serverVars, syncVars>>

\* enqueueRepo: const queue = await getQueue(); if (queue.find(...)) return
EnqRead(e) ==
    /\ qp[e].pc = "enqRead"
    /\ qp' = [qp EXCEPT ![e] =
                IF Enqueued(storage, qp[e].dir, RepoNameOf(qp[e].dir), clock) = storage
                THEN [@ EXCEPT !.pc = "countRead"]
                ELSE [@ EXCEPT !.pc = "enqWrite", !.queue = storage]]
    /\ UNCHANGED <<storage, clock, isOnline, wasOnline, pendingPushCount, fl, pushedSince, serverVars, syncVars, creds>>

\* enqueueRepo: queue.push({...}); await AsyncStorage.setItem(QUEUE_KEY, ...)
EnqWrite(e) ==
    /\ qp[e].pc = "enqWrite"
    /\ storage' = Enqueued(qp[e].queue, qp[e].dir, RepoNameOf(qp[e].dir), clock)
    /\ pushedSince' = pushedSince \ {qp[e].dir}
    /\ clock' = clock + 1
    /\ qp' = [qp EXCEPT ![e] = [@ EXCEPT !.pc = "countRead", !.queue = <<>>]]
    /\ UNCHANGED <<isOnline, wasOnline, pendingPushCount, fl, serverVars, syncVars, creds>>

\* queuePush: const queue = await getQueue()
EnqCountRead(e) ==
    /\ qp[e].pc = "countRead"
    /\ qp' = [qp EXCEPT ![e] = [@ EXCEPT !.pc = "countSet", !.queue = storage]]
    /\ UNCHANGED <<storage, clock, isOnline, wasOnline, pendingPushCount, fl, pushedSince, serverVars, syncVars, creds>>

\* queuePush: set({ pendingPushCount: queue.length })
EnqCountSet(e) ==
    /\ qp[e].pc = "countSet"
    /\ pendingPushCount' = Len(qp[e].queue)
    /\ qp' = [qp EXCEPT ![e] = IdleEnq]
    /\ UNCHANGED <<storage, clock, isOnline, wasOnline, fl,
                   pushedSince, serverVars, syncVars, creds>>

\* App mounts, useEffect: loadCreds() and loadPendingCount() are called (not
\* awaited); the getItem of loadPendingCount is the first request for the queue that
\* the new process makes
MountLoad(e) == [pc |-> "loadRead", dir |-> 0, queue |-> <<>>]

\* the process is killed and started again: every in-memory value is back at its
\* initial value, what AsyncStorage holds stays, and the app mounts
Restart ==
    /\ isOnline' = TRUE
    /\ wasOnline' = "null"
    /\ pendingPushCount' = 0
    /\ fl' = [f \in DOMAIN fl |-> IdleFlush]
    /\ qp' = [e \in DOMAIN qp |-> IF e = 1 THEN MountLoad(e) ELSE IdleEnq]
    /\ creds' = [NoCreds EXCEPT !.saved = creds.saved, !.pc = "load"]
    /\ UNCHANGED <<storage, clock, pushedSince, serverVars, syncVars>>

\* loadPendingCount: const queue = await getQueue()
LoadRead(e) ==
    /\ qp[e].pc = "loadRead"
    /\ qp' = [qp EXCEPT ![e] = [@ EXCEPT !.pc = "loadSet", !.queue = GetQueue(storage, TRUE)]]
    /\ UNCHANGED <<storage, clock, isOnline, wasOnline, pendingPushCount, fl, pushedSince, serverVars, syncVars, creds>>

\* loadPendingCount: set({ pendingPushCount: queue.length })
LoadSet(e) ==
    /\ qp[e].pc = "loadSet"
    /\ pendingPushCount' = Len(qp[e].queue)
    /\ qp' = [qp EXCEPT ![e] = IdleEnq]
    /\ UNCHANGED <<storage, clock, isOnline, wasOnline, fl,
                   pushedSince, serverVars, syncVars, creds>>

\* AsyncStorage serves its requests one at a time in the order they were made and
\* answers in that order: a request made after loadPendingCount's is served, and its
\* caller resumed, only after loadPendingCount has resumed
StorageFree == \A e \in DOMAIN qp : qp[e].pc \notin {"loadRead", "loadSet"}

(***************************************************************************)
(* The app with its queue: connectivity events, pushes from the remote     *)
(* screen, and flushes started by the listener and by the banner.          *)
(***************************************************************************)
\* the store and the listener after the app has mounted
QueueStart ==
    /\ storage = <<>>
    /\ clock = 0
    /\ isOnline = TRUE
    /\ wasOnline = "null"
    /\ pendingPushCount = 0
    /\ fl = [f \in Flushers |-> IdleFlush]
    /\ qp = [e \in Enqueuers |-> IdleEnq]
    /\ pushedSince = {}
    /\ creds = NoCreds

QueueInit ==
    /\ ServerIdle
    /\ SyncIdle
    /\ QueueStart

QueueNext ==
    \/ \E online \in BOOLEAN : NetEvent(online)
    \/ HandleFlush
    \/ \E f \in DOMAIN fl : FlushGetQueue(f)
    \/ \E f \in DOMAIN fl : FlushPushOk(f)
    \/ \E f \in DOMAIN fl : FlushPushFail(f)
    \/ \E f \in DOMAIN fl : FlushDeqRead(f)
    \/ \E f \in DOMAIN fl : FlushDeqWrite(f)
    \/ \E f \in DOMAIN fl : FlushFinalRead(f)
    \/ \E f \in DOMAIN fl : FlushFinalSet(f)
    \/ \E dir \in Repos : HandlePushOffline(dir)
    \/ \E dir \in Repos, ok \in BOOLEAN : HandlePushOnline(dir, ok)
    \/ \E dir \in Repos : HandlePushPeer(dir)
    \/ \E e \in DOMAIN qp : EnqRead(e)
    \/ \E e \in DOMAIN qp : EnqWrite(e)
    \/ \E e \in DOMAIN qp : EnqCountRead(e)
    \/ \E e \in DOMAIN qp : EnqCountSet(e)

SpecQueue == QueueInit /\ [][QueueNext]_vars

(***************************************************************************)
(* The queue exercised alone: enqueueRepo calls over any persisted queue,  *)
(* and one flush over any persisted queue.                                 *)
(***************************************************************************)
DirSeqs(D, n) == {s \in [1..n -> D] : \A a, b \in 1..n : a # b => s[a] # s[b]}

\* a queue persisted earlier: one entry per dir, queuedAt increasing, all in the past
QueueOf(s) == [k \in 1..Len(s) |-> NewEntry(s[k], RepoNameOf(s[k]), k - 1 - Len(s))]

QueuesOver(D) == {QueueOf(s) : s \in UNION {DirSeqs(D, n) : n \in 0..Cardinality(D)}}

EnqueueInit ==
    /\ ServerIdle
    /\ SyncIdle
    /\ storage \in QueuesOver(Repos \ {0})
    /\ clock = 0
    /\ isOnline = FALSE
    /\ wasOnline = "offline"
    /\ pendingPushCount = Len(storage)
    /\ fl = <<>>
    /\ qp = [e \in 1..NumCallers |-> IdleEnq]
    /\ pushedSince = {}
    /\ creds = NoCreds

EnqueueNext ==
    \/ \E dir \in Repos : HandlePushOffline(dir)
    \/ \E e \in DOMAIN qp : EnqRead(e)
    \/ \E e \in DOMAIN qp : EnqWrite(e)
    \/ \E e \in DOMAIN qp : EnqCountRead(e)
    \/ \E e \in DOMAIN qp : EnqCountSet(e)

SpecEnqueue == EnqueueInit /\ [][EnqueueNext]_vars

FlushInit ==
    /\ ServerIdle
    /\ SyncIdle
    /\ storage \in QueuesOver(AllDirs)
    /\ clock = 0
    /\ isOnline = TRUE
    /\ wasOnline = "online"
    /\ pendingPushCount = Len(storage)
    /\ fl = [f \in {1} |-> [IdleFlush EXCEPT !.pc = "getQueue"]]
    /\ qp = <<>>
    /\ pushedSince = {}
    /\ creds = NoCreds

FlushNext ==
    \/ \E f \in DOMAIN fl : FlushGetQueue(f)
    \/ \E f \in DOMAIN fl : FlushPushOk(f)
    \/ \E f \in DOMAIN fl : FlushPushFail(f)
    \/ \E f \in DOMAIN fl : FlushDeqRead(f)
    \/ \E f \in DOMAIN fl : FlushDeqWrite(f)
    \/ \E f \in DOMAIN fl : FlushFinalRead(f)
    \/ \E f \in DOMAIN fl : FlushFinalSet(f)

SpecFlush == FlushInit /\ [][FlushNext]_vars

(***************************************************************************)
(* The app killed and started again at any point: one flush and one        *)
(* enqueue at a time, the store kept across restarts.                      *)
(***************************************************************************)
RestartInit ==
    /\ ServerIdle
    /\ SyncIdle
    /\ storage = <<>>
    /\ clock = 0
    /\ isOnline = TRUE
    /\ wasOnline = "null"
    /\ pendingPushCount = 0
    /\ fl = [f \in {1} |-> IdleFlush]
    /\ qp = [e \in {1} |-> MountLoad(e)]
    /\ pushedSince = {}
    /\ creds = [NoCreds EXCEPT !.pc = "load"]

RestartNext ==
    \/ Restart
    \/ LoadCreds
    \/ \E e \in DOMAIN qp : LoadRead(e)
    \/ \E e \in DOMAIN qp : LoadSet(e)
    \/ \E online \in BOOLEAN : NetEvent(online)
    \/ HandleFlush
    \/ \E f \in DOMAIN fl : StorageFree /\ FlushGetQueue(f)
    \/ \E f \in DOMAIN fl : FlushPushOk(f)
    \/ \E f \in DOMAIN fl : FlushPushFail(f)
    \/ \E f \in DOMAIN fl : StorageFree /\ FlushDeqRead(f)
    \/ \E f \in DOMAIN fl : StorageFree /\ FlushDeqWrite(f)
    \/ \E f \in DOMAIN fl : StorageFree /\ FlushFinalRead(f)
    \/ \E f \in DOMAIN fl : FlushFinalSet(f)
    \/ \E dir \in 1..AppDirs : HandlePushOffline(dir)
    \/ \E e \in DOMAIN qp : StorageFree /\ EnqRead(e)
    \/ \E e \in DOMAIN qp : StorageFree /\ EnqWrite(e)
    \/ \E e \in DOMAIN qp : StorageFree /\ EnqCountRead(e)
    \/ \E e \in DOMAIN qp : EnqCountSet(e)

SpecRestart == RestartInit /\ [][RestartNext]_vars

(***************************************************************************)
(* The app with its settings screen: offline pushes, flushes, and the      *)
(* token changed at any point.                                             *)
(***************************************************************************)
Tokens == {"", "t1", "t2"}

CredsInit ==
    /\ ServerIdle
    /\ SyncIdle
    /\ storage = <<>>
    /\ clock = 0
    /\ isOnline = TRUE
    /\ wasOnline = "null"
    /\ pendingPushCount = 0
    /\ fl = [f \in {1} |-> IdleFlush]
    /\ qp = [e \in {1} |-> IdleEnq]
    /\ pushedSince = {}
    /\ creds = NoCreds

CredsNext ==
    \/ \E token \in Tokens : SaveCreds(token)
    \/ \E online \in BOOLEAN : NetEvent(online)
    \/ HandleFlush
    \/ \E f \in DOMAIN fl : FlushGetQueue(f)
    \/ \E f \in DOMAIN fl : FlushPushOk(f)
    \/ \E f \in DOMAIN fl : FlushPushFail(f)
    \/ \E f \in DOMAIN fl : FlushDeqRead(f)
    \/ \E f \in DOMAIN fl : FlushDeqWrite(f)
    \/ \E f \in DOMAIN fl : FlushFinalRead(f)
    \/ \E f \in DOMAIN fl : FlushFinalSet(f)
    \/ \E dir \in 1..AppDirs : HandlePushOffline(dir)
    \/ \E e \in DOMAIN qp : EnqRead(e)
    \/ \E e \in DOMAIN qp : EnqWrite(e)
    \/ \E e \in DOMAIN qp : EnqCountRead(e)
    \/ \E e \in DOMAIN qp : EnqCountSet(e)

SpecCreds == CredsInit /\ [][CredsNext]_vars

(***************************************************************************)
(* A flush over any persisted queue during which the device goes offline:  *)
(* the enqueueRepo calls of NumCallers queuePush callers overlap with each  *)
(* other and with the dequeueRepo calls of the flush. The behaviours end    *)
(* where enqueueRepo has returned to queuePush.                            *)
(***************************************************************************)
OverlapInit ==
    /\ ServerIdle
    /\ SyncIdle
    /\ storage \in QueuesOver(1..AppDirs)
    /\ clock = 0
    /\ isOnline = TRUE
    /\ wasOnline = "online"
    /\ pendingPushCount = Len(storage)
    /\ fl = [f \in {1} |-> [IdleFlush EXCEPT !.pc = "getQueue"]]
    /\ qp = [e \in 1..NumCallers |-> IdleEnq]
    /\ pushedSince = {}
    /\ creds = NoCreds

OverlapNext ==
    \/ NetEvent(FALSE)
    \/ \E f \in DOMAIN fl : FlushGetQueue(f)
    \/ \E f \in DOMAIN fl : FlushPushOk(f)
    \/ \E f \in DOMAIN fl : FlushPushFail(f)
    \/ \E f \in DOMAIN fl : FlushDeqRead(f)
    \/ \E f \in DOMAIN fl : FlushDeqWrite(f)
    \/ \E f \in DOMAIN fl : FlushFinalRead(f)
    \/ \E f \in DOMAIN fl : FlushFinalSet(f)
    \/ \E dir \in 1..AppDirs : HandlePushOffline(dir)
    \/ \E e \in DOMAIN qp : EnqRead(e)
    \/ \E e \in DOMAIN qp : EnqWrite(e)

SpecOverlap == OverlapInit /\ [][OverlapNext]_vars

(***************************************************************************)
(* Connectivity events from the start of the app, over any persisted       *)
(* queue; flushes are started by the NetInfo listener only.                *)
(***************************************************************************)
ReconnectInit ==
    /\ ServerIdle
    /\ SyncIdle
    /\ storage \in QueuesOver(1..AppDirs)
    /\ clock = 0
    /\ isOnline = TRUE
    /\ wasOnline = "null"
    /\ pendingPushCount = Len(storage)
    /\ fl = [f \in Flushers |-> IdleFlush]
    /\ qp = <<>>
    /\ pushedSince = {}
    /\ creds = NoCreds

ReconnectNext ==
    \/ \E online \in BOOLEAN : NetEvent(online)
    \/ \E f \in DOMAIN fl : FlushGetQueue(f)
    \/ \E f \in DOMAIN fl : FlushPushOk(f)
    \/ \E f \in DOMAIN fl : FlushPushFail(f)
    \/ \E f \in DOMAIN fl : FlushDeqRead(f)
    \/ \E f \in DOMAIN fl : FlushDeqWrite(f)
    \/ \E f \in DOMAIN fl : FlushFinalRead(f)
    \/ \E f \in DOMAIN fl : FlushFinalSet(f)

SpecReconnect == ReconnectInit /\ [][ReconnectNext]_vars

(***************************************************************************)
(* One flush over any persisted queue, with a store whose reads and writes *)
(* may fail.                                                               *)
(***************************************************************************)
FlushFaultsNext ==
    \/ \E f \in DOMAIN fl : FlushGetQueue(f)
    \/ \E f \in DOMAIN fl : FlushGetQueueFail(f)
    \/ \E f \in DOMAIN fl : FlushPushOk(f)
    \/ \E f \in DOMAIN fl : FlushPushFail(f)
    \/ \E f \in DOMAIN fl : FlushDeqRead(f)
    \/ \E f \in DOMAIN fl : FlushDeqReadFail(f)
    \/ \E f \in DOMAIN fl : FlushDeqWrite(f)
    \/ \E f \in DOMAIN fl : FlushDeqWriteFail(f)
    \/ \E f \in DOMAIN fl : FlushFinalRead(f)
    \/ \E f \in DOMAIN fl : FlushFinalReadFail(f)
    \/ \E f \in DOMAIN fl : FlushFinalSet(f)

SpecFlushFaults == FlushInit /\ [][FlushFaultsNext]_vars

(***************************************************************************)
(* The framer and the routes on one socket: the bytes of a stream arrive   *)
(* in chunks of any size.                                                  *)
(***************************************************************************)
QueueIdle ==
    /\ storage = <<>>
    /\ clock = 0
    /\ isOnline = TRUE
    /\ wasOnline = "null"
    /\ pendingPushCount = 0
    /\ fl = <<>>
    /\ qp = <<>>
    /\ pushedSince = {}
    /\ creds = NoCreds

\* one request, as a client sends it
ValidRequests ==
    {ReqHealth, ReqRefs, ReqPackM, ReqPackMissing, ReqNoRoute, ReqRecvC2, ReqRecvNoSha,
     ReqRecvUtf8, ReqRecvNull, ReqRecvBad}

\* a request followed by more bytes: a pipelined request, extra body bytes
FramerStreams ==
    ValidRequests \cup {ReqRefs \o ReqHealth, ReqRecvC2 \o <<"x", "x">>,
                         ReqBadLine, ReqNoRoutePct}

\* the served repository: branch m at c1
HostStart ==
    /\ hostRefs = [n \in {<<"m">>} |-> c1]
    /\ hostObjs = {c1}
    /\ hostFiles = LooseOnly({c1})
    /\ writes = 0
    /\ server = [NoServer EXCEPT !.listener = 1, !.dir = "A", !.bound = {1}, !.made = 1]

FramerInit ==
    /\ QueueIdle
    /\ SyncIdle
    /\ HostStart
    /\ conn = [c \in {1} |-> FreeConn]

FramerNext ==
    \/ \E c \in DOMAIN conn, stream \in FramerStreams : Accept(c, stream)
    \/ \E c \in DOMAIN conn : \E n \in 1..Len(conn[c].stream) : Data(c, n)
    \/ \E c \in DOMAIN conn : \E h \in 1..Len(conn[c].hs) : HandlerFails(c, h)
    \/ \E c \in DOMAIN conn : \E h \in 1..Len(conn[c].hs) : RefsList(c, h)
    \/ \E c \in DOMAIN conn : \E h \in 1..Len(conn[c].hs) : RefsRespond(c, h)
    \/ \E c \in DOMAIN conn : \E h \in 1..Len(conn[c].hs) : PackLog(c, h)
    \/ \E c \in DOMAIN conn : \E h \in 1..Len(conn[c].hs) : PackRespond(c, h)
    \/ \E c \in DOMAIN conn : \E h \in 1..Len(conn[c].hs) : RecvExists(c, h)
    \/ \E c \in DOMAIN conn : \E h \in 1..Len(conn[c].hs) : RecvWriteFile(c, h)
    \/ \E c \in DOMAIN conn : \E h \in 1..Len(conn[c].hs) : RecvIndexPack(c, h)
    \/ \E c \in DOMAIN conn : \E h \in 1..Len(conn[c].hs) : RecvWriteRef(c, h)
    \/ \E c \in DOMAIN conn : \E h \in 1..Len(conn[c].hs) : RecvRespond(c, h)

SpecFramer == FramerInit /\ [][FramerNext]_vars

(***************************************************************************)
(* POST /api/receive from several peers at once, each request arriving     *)
(* whole.                                                                  *)
(***************************************************************************)
ReceiveStreams == {ReqRecvC2, ReqRecvC3, ReqRecvD3}

ReceiveInit ==
    /\ QueueIdle
    /\ SyncIdle
    /\ HostStart
    /\ conn = [c \in 1..NumConns |-> FreeConn]

ReceiveNext ==
    \/ \E c \in DOMAIN conn, stream \in ReceiveStreams : Accept(c, stream)
    \/ \E c \in DOMAIN conn : Data(c, Len(conn[c].stream))
    \/ \E c \in DOMAIN conn : \E h \in 1..Len(conn[c].hs) : HandlerFails(c, h)
    \/ \E c \in DOMAIN conn : \E h \in 1..Len(conn[c].hs) : RecvExists(c, h)
    \/ \E c \in DOMAIN conn : \E h \in 1..Len(conn[c].hs) : RecvWriteFile(c, h)
    \/ \E c \in DOMAIN conn : \E h \in 1..Len(conn[c].hs) : RecvIndexPack(c, h)
    \/ \E c \in DOMAIN conn : \E h \in 1..Len(conn[c].hs) : RecvWriteRef(c, h)
    \/ \E c \in DOMAIN conn : \E h \in 1..Len(conn[c].hs) : RecvRespond(c, h)

SpecReceive == ReceiveInit /\ [][ReceiveNext]_vars

(***************************************************************************)
(* One fetchFromPeer call over any local branch state and any answers of   *)
(* the peer.                                                               *)
(***************************************************************************)
\* the local repository: no branch m, or m at c1, c2 or c3
LocalStarts ==
    {[refs |-> NoRefs, objs |-> {}]}
    \cup {[refs |-> [n \in {<<"m">>} |-> c], objs |-> Walk(c, LogDepth)] : c \in Commits}

\* what GET /api/refs can answer: up to MaxRefs branches of distinct names
RefLists ==
    UNION {{r \in [1..n -> [name : {BranchOrder[k] : k \in 1..Len(BranchOrder)},
                            sha : Commits]] :
                \A a, b \in 1..n : a # b => r[a].name # r[b].name} : n \in 0..MaxRefs}

RefsAnswers ==
    {<<>>, <<[status |-> 500, refs |-> <<>>]>>}
    \cup {<<[status |-> 200, refs |-> r]>> : r \in RefLists}

\* what GET /api/pack can answer: the history of any commit, or bytes that are no pack
PackAnswers ==
    {<<>>, <<[status |-> 404, pack |-> <<>>]>>}
    \cup {<<[status |-> 200, pack |-> PackOf(Walk(c, LogDepth))]>> : c \in Commits}
    \cup {<<[status |-> 200, pack |-> <<"!">>]>>}

FetchInit ==
    /\ QueueIdle
    /\ ServerIdle
    /\ \E start \in LocalStarts : localRefs = start.refs /\ localObjs = start.objs
    /\ ft = IdleFetch
    /\ dirs = {"B"}
    /\ CallsIdle

FetchNext ==
    \/ FetchStart
    \/ \E answer \in RefsAnswers : FetchRefs(answer)
    \/ \E ok \in BOOLEAN : FetchEnsurePeerTemp(ok)
    \/ FetchReadCommit
    \/ \E ok \in BOOLEAN : FetchWriteRefHave(ok)
    \/ \E answer \in PackAnswers : FetchPack(answer)
    \/ \E ok \in BOOLEAN : FetchWriteFile(ok)
    \/ FetchIndexPack
    \/ \E ok \in BOOLEAN : FetchWriteRef(ok)

SpecFetch == FetchInit /\ [][FetchNext]_vars

(***************************************************************************)
(* fetchFromPeer called NumRuns times against a peer that does not change, *)
(* with the local file system working.                                     *)
(***************************************************************************)
BranchNames == {BranchOrder[k] : k \in 1..Len(BranchOrder)}

\* the peer's branches: up to MaxRefs names, each at any commit
PeerRefs ==
    UNION {[names -> Commits] :
              names \in {N \in SUBSET BranchNames : Cardinality(N) <= MaxRefs}}

FetchTwiceInit ==
    /\ QueueIdle
    /\ conn = <<>>
    /\ hostRefs \in PeerRefs
    /\ hostObjs \in {Commits, {}}
    /\ hostFiles = LooseOnly(hostObjs)
    /\ writes = 0
    /\ server = [NoServer EXCEPT !.listener = 1, !.dir = "A", !.bound = {1}, !.made = 1]
    /\ \E start \in LocalStarts : localRefs = start.refs /\ localObjs = start.objs
    /\ ft = IdleFetch
    /\ dirs = {"B"}
    /\ CallsIdle

FetchTwiceNext ==
    \/ FetchStart
    \/ FetchRefs(RefsAnswerOf(hostRefs))
    \/ FetchEnsurePeerTemp(TRUE)
    \/ FetchReadCommit
    \/ FetchWriteRefHave(TRUE)
    \/ ft.pc = "fetchPack" /\ FetchPack(PackAnswerOf(hostRefs, hostObjs, ft.refs[ft.i].name))
    \/ FetchWriteFile(TRUE)
    \/ FetchIndexPack
    \/ FetchWriteRef(TRUE)
    \/ FetchAgain

SpecFetchTwice == FetchTwiceInit /\ [][FetchTwiceNext]_vars

(***************************************************************************)
(* One fetchFromPeer call against a peer that may stop answering. Every    *)
(* step that can be taken is taken in the end: awaited promises that       *)
(* settle resume the call.                                                 *)
(***************************************************************************)
FetchLiveNext ==
    \/ FetchStart
    \/ \E answer \in RefsAnswers : FetchRefs(answer)
    \/ FetchHangs
    \/ \E ok \in BOOLEAN : FetchEnsurePeerTemp(ok)
    \/ FetchReadCommit
    \/ \E ok \in BOOLEAN : FetchWriteRefHave(ok)
    \/ \E answer \in PackAnswers : FetchPack(answer)
    \/ \E ok \in BOOLEAN : FetchWriteFile(ok)
    \/ FetchIndexPack
    \/ \E ok \in BOOLEAN : FetchWriteRef(ok)

SpecFetchLive == FetchInit /\ [][FetchLiveNext]_vars /\ WF_vars(FetchLiveNext)

(***************************************************************************)
(* One cloneFromPeer call, with the directory there or not, over any       *)
(* answers of the peer.                                                    *)
(***************************************************************************)
CloneInitial ==
    /\ QueueIdle
    /\ ServerIdle
    /\ \/ dirs = {} /\ localRefs = NoRefs /\ localObjs = {}
       \/ /\ dirs = {"B"}
          /\ \E start \in LocalStarts : localRefs = start.refs /\ localObjs = start.objs
    /\ ft = IdleFetch
    /\ CallsIdle

CloneNext ==
    \/ CloneStart("B")
    \/ \E ok \in BOOLEAN : CloneEnsureReposDir(ok)
    \/ CloneExists
    \/ \E ok \in BOOLEAN : CloneMkdir(ok)
    \/ \E ok \in BOOLEAN : CloneInit(ok)
    \/ CloneFetch
    \/ \E answer \in RefsAnswers : FetchRefs(answer)
    \/ \E ok \in BOOLEAN : FetchEnsurePeerTemp(ok)
    \/ FetchReadCommit
    \/ \E ok \in BOOLEAN : FetchWriteRefHave(ok)
    \/ \E answer \in PackAnswers : FetchPack(answer)
    \/ \E ok \in BOOLEAN : FetchWriteFile(ok)
    \/ FetchIndexPack
    \/ \E ok \in BOOLEAN : FetchWriteRef(ok)
    \/ CloneFetched
    \/ \E ok \in BOOLEAN : CloneCheckout(ok)

SpecClone == CloneInitial /\ [][CloneNext]_vars

(***************************************************************************)
(* One pushToPeer call against the host, the request arriving in chunks of *)
(* any size.                                                               *)
(***************************************************************************)
PushInit ==
    /\ QueueIdle
    /\ HostStart
    /\ conn = [c \in {1} |-> FreeConn]
    /\ \E start \in LocalStarts : localRefs = start.refs /\ localObjs = start.objs
    /\ ft = IdleFetch
    /\ dirs = {"B"}
    /\ CallsIdle

PushNext ==
    \/ \E branch \in {<<"m">>, <<"d">>} : PushStart(branch)
    \/ PushResolveRef
    \/ PushLog
    \/ \E ok \in BOOLEAN : PushPackObjects(ok)
    \/ \E c \in DOMAIN conn : PushSend(c)
    \/ \E c \in DOMAIN conn : \E n \in 1..Len(conn[c].stream) : Data(c, n)
    \/ \E c \in DOMAIN conn : \E h \in 1..Len(conn[c].hs) : HandlerFails(c, h)
    \/ \E c \in DOMAIN conn : \E h \in 1..Len(conn[c].hs) : RecvExists(c, h)
    \/ \E c \in DOMAIN conn : \E h \in 1..Len(conn[c].hs) : RecvWriteFile(c, h)
    \/ \E c \in DOMAIN conn : \E h \in 1..Len(conn[c].hs) : RecvIndexPack(c, h)
    \/ \E c \in DOMAIN conn : \E h \in 1..Len(conn[c].hs) : RecvWriteRef(c, h)
    \/ \E c \in DOMAIN conn : \E h \in 1..Len(conn[c].hs) : RecvRespond(c, h)
    \/ PushResponse
    \/ PushTransportError

SpecPush == PushInit /\ [][PushNext]_vars

(***************************************************************************)
(* Hosting switched on and off, with peers probing /api/health.            *)
(***************************************************************************)
ServeDirs == {"A", "B"}

LifecycleInit ==
    /\ QueueIdle
    /\ SyncIdle
    /\ conn = [c \in 1..NumConns |-> FreeConn]
    /\ hostRefs = [n \in {<<"m">>} |-> c1]
    /\ hostObjs = {c1}
    /\ hostFiles = LooseOnly({c1})
    /\ writes = 0
    /\ server = NoServer

LifecycleNext ==
    \/ \E dir \in ServeDirs, ok \in BOOLEAN : StartServer(dir, ok)
    \/ StopServer
    \/ \E c \in DOMAIN conn : Accept(c, ReqHealth)
    \/ \E c \in DOMAIN conn : Data(c, Len(conn[c].stream))

SpecLifecycle == LifecycleInit /\ [][LifecycleNext]_vars

(***************************************************************************)
(* Pushes received by the host, some of them with a pack that cannot be    *)
(* stored or indexed                                                       *)
(***************************************************************************)
ReceiveFailStreams == {ReqRecvC3, ReqRecvBadPack}

ReceiveFailNext ==
    \/ \E c \in DOMAIN conn, stream \in ReceiveFailStreams : Accept(c, stream)
    \/ \E c \in DOMAIN conn : Data(c, Len(conn[c].stream))
    \/ \E c \in DOMAIN conn : \E h \in 1..Len(conn[c].hs) : HandlerFails(c, h)
    \/ \E c \in DOMAIN conn : \E h \in 1..Len(conn[c].hs) : RecvExists(c, h)
    \/ \E c \in DOMAIN conn : \E h \in 1..Len(conn[c].hs) : RecvWriteFile(c, h)
    \/ \E c \in DOMAIN conn : \E h \in 1..Len(conn[c].hs) : RecvIndexPack(c, h)
    \/ \E c \in DOMAIN conn : \E h \in 1..Len(conn[c].hs) : RecvWriteRef(c, h)
    \/ \E c \in DOMAIN conn : \E h \in 1..Len(conn[c].hs) : RecvRespond(c, h)

SpecReceiveFail == ReceiveInit /\ [][ReceiveFailNext]_vars

(***************************************************************************)
(* A listening host and several connections whose chunks interleave        *)
(***************************************************************************)
InterleaveStreams == {ReqHealth, ReqNoRoute, ReqRecvNoSha, ReqRecvBad}

InterleaveInit ==
    /\ QueueIdle
    /\ SyncIdle
    /\ HostStart
    /\ conn = [c \in 1..NumConns |-> FreeConn]

InterleaveNext ==
    \/ \E c \in DOMAIN conn, stream \in InterleaveStreams : Accept(c, stream)
    \/ \E c \in DOMAIN conn : Data(c, Min({ChunkLen, Len(conn[c].stream) - conn[c].pos}))

SpecInterleave == InterleaveInit /\ [][InterleaveNext]_vars

(***************************************************************************)
(* A listening host and several connections, some of which fail            *)
(***************************************************************************)
IsolationStreams == {ReqHealth, ReqRefs, ReqPackM, ReqPackMissing, ReqNoRoutePct}

IsolationInit ==
    /\ QueueIdle
    /\ SyncIdle
    /\ HostStart
    /\ conn = [c \in 1..NumConns |-> FreeConn]

IsolationNext ==
    \/ \E c \in DOMAIN conn, stream \in IsolationStreams : Accept(c, stream)
    \/ \E c \in DOMAIN conn : Data(c, Len(conn[c].stream))
    \/ \E c \in DOMAIN conn : DataFatal(c, Len(conn[c].stream))
    \/ \E c \in DOMAIN conn : SocketError(c)
    \/ \E c \in DOMAIN conn : \E h \in 1..Len(conn[c].hs) : HandlerFails(c, h)
    \/ \E c \in DOMAIN conn : \E h \in 1..Len(conn[c].hs) : RefsList(c, h)
    \/ \E c \in DOMAIN conn : \E h \in 1..Len(conn[c].hs) : RefsRespond(c, h)
    \/ \E c \in DOMAIN conn : \E h \in 1..Len(conn[c].hs) : PackLog(c, h)
    \/ \E c \in DOMAIN conn : \E h \in 1..Len(conn[c].hs) : PackRespond(c, h)

SpecIsolation == IsolationInit /\ [][IsolationNext]_vars

(***************************************************************************)
(* The whole app                                                           *)
(***************************************************************************)
Init ==
    /\ QueueStart
    /\ HostStart
    /\ conn = [c \in 1..NumConns |-> FreeConn]
    /\ SyncIdle

Next ==
    \/ QueueNext
    \/ LifecycleNext
    \/ FramerNext
    \/ FetchLiveNext
    \/ FetchAgain
    \/ CloneNext
    \/ PushNext

Spec == Init /\ [][Next]_vars

(***************************************************************************)
(* Claims about the offline push queue                                     *)
(***************************************************************************)
Oks(log) == {k \in 1..Len(log) : log[k].ok}
Fails(log) == {k \in 1..Len(log) : ~log[k].ok}

\* the entries of queue at the positions in keep, in their order
RECURSIVE Keep(_, _, _)
Keep(queue, keep, k) ==
    IF k > Len(queue) THEN <<>>
    ELSE (IF k \in keep THEN <<queue[k]>> ELSE <<>>) \o Keep(queue, keep, k + 1)

\* C4: a flush over a queue of N entries of which K pushes succeed calls the push
\* primitive once for each of the N entries, in order, returns succeeded = K and
\* failed = N - K, and leaves in the queue the N - K failed entries in their order.
C4_FlushCounts ==
    \A f \in DOMAIN fl :
        fl[f].pc = "done" =>
            /\ Len(fl[f].log) = Len(fl[f].queue)
            /\ \A k \in 1..Len(fl[f].log) : fl[f].log[k].dir = fl[f].queue[k].dir
            /\ fl[f].succeeded = Cardinality(Oks(fl[f].log))
            /\ fl[f].failed = Len(fl[f].queue) - Cardinality(Oks(fl[f].log))
            /\ storage = Keep(fl[f].queue, Fails(fl[f].log), 1)

C4_Witness ==
    \E f \in DOMAIN fl :
        /\ fl[f].pc = "done"
        /\ Len(fl[f].queue) = 3
        /\ ~fl[f].log[1].ok /\ fl[f].log[2].ok /\ ~fl[f].log[3].ok
        /\ fl[f].succeeded = 1 /\ fl[f].failed = 2
        /\ Len(storage) = 2

\* C5: enqueueRepo(dir) that finds an entry for dir writes nothing: the persisted
\* queue keeps its entries, ids, queuedAt and order, and no dir is ever queued twice.
C5_EnqueueIdempotent ==
    [][\A e \in DOMAIN qp :
          /\ (qp[e].pc = "enqRead" /\ qp'[e].pc # "enqRead" /\ HasDir(storage, qp[e].dir))
                => (storage' = storage /\ qp'[e].pc = "countRead")
          /\ \A dir \in Repos :
                Cardinality({k \in 1..Len(storage') : storage'[k].dir = dir}) <= 1]_vars

C5_Witness ==
    \E e \in DOMAIN qp : \E k \in 1..Len(storage) :
        /\ qp[e].pc = "countRead"
        /\ storage[k].dir = qp[e].dir
        /\ storage[k].id < clock - 1
        /\ clock > 0

\* the entries flush invocation r has counted in succeeded
CountedOk(r) ==
    {r.queue[k] : k \in {j \in Oks(r.log) : j < r.i \/ r.pc \in {"finalRead", "finalSet", "done"}}}

Overlapped(f, g) == g \in fl[f].with \/ f \in fl[g].with

\* C6: two flushPushQueue invocations that overlap never both count the same
\* queue entry as succeeded (so their succeeded counts together do not exceed the
\* number of entries removed).
C6_NoDoubleCount ==
    \A f, g \in DOMAIN fl :
        (f # g /\ Overlapped(f, g)) => CountedOk(fl[f]) \cap CountedOk(fl[g]) = {}

\* C7: an entry for dir appears only through the enqueue of an offline push of a
\* non-peer repository, it leaves the queue only once a push of dir has
\* succeeded, and once a push of dir has succeeded (and no flush is running) the
\* queue holds no entry for dir.
C7_EntryLifecycle ==
    [][\A dir \in Repos :
          /\ (~HasDir(storage, dir) /\ HasDir(storage', dir))
                => (~IsPeer(dir) /\ \E e \in DOMAIN qp :
                        qp[e].pc = "enqWrite" /\ qp[e].dir = dir /\ qp'[e].pc = "countRead")
          /\ (HasDir(storage, dir) /\ ~HasDir(storage', dir))
                => dir \in pushedSince
          /\ (dir \in pushedSince' /\ RunningFlushers' = {})
                => ~HasDir(storage', dir)]_vars

(***************************************************************************)
(* Claims about the wire framer and the routes                             *)
(***************************************************************************)
\* the request the framer hands over when the bytes arrive as a single chunk
Unsplit(stream) == Framed(Utf8Decode(stream))[1]

\* C1: a valid request delivered in chunks split at any byte offset is handed to the
\* dispatcher as the same request (method, path, query, headers, body) as when its
\* bytes arrive as a single chunk.
C1_ChunkInvariant ==
    \A c \in DOMAIN conn :
        (conn[c].stream \in ValidRequests /\ conn[c].reqs # <<>>)
            => conn[c].reqs[1] = Unsplit(conn[c].stream)

\* C2: on one accepted connection the framer hands a request to the dispatcher at
\* most once, whatever bytes arrive after a complete request.
C2_DispatchOnce ==
    \A c \in DOMAIN conn : Len(conn[c].reqs) <= 1

\* C3: when a matched route handler fails with an exception, the client has been
\* sent a 500 response.
C3_HandlerFailure500 ==
    \A c \in DOMAIN conn : \A h \in 1..Len(conn[c].hs) :
        conn[c].hs[h].pc = "rejected"
            => \E k \in 1..Len(conn[c].out) : conn[c].out[k].status = 500

(***************************************************************************)
(* Claims about peer sync                                                  *)
(***************************************************************************)
\* the /api/receive handlers that have written their ref
Writers ==
    UNION {{<<c, h>> : h \in {k \in 1..Len(conn[c].hs) :
                                 conn[c].hs[k].route = "receive" /\ conn[c].hs[k].wseq > 0}} :
           c \in DOMAIN conn}

HandlerOf(w) == conn[w[1]].hs[w[2]]

\* C9: of the POST /api/receive requests to one ref, sequential or overlapping, none
\* is turned down for not being a fast-forward (each that completes is answered 200
\* with its own sha), nothing is merged, and the ref equals the sha of the request
\* whose ref write completed last.
C9_LastReceiveWins ==
    /\ \A w \in Writers :
          (\A v \in Writers : HandlerOf(v).ref = HandlerOf(w).ref
                                 => HandlerOf(v).wseq <= HandlerOf(w).wseq)
              => hostRefs[HandlerOf(w).ref] = HandlerOf(w).sha
    /\ \A c \in DOMAIN conn : \A h \in 1..Len(conn[c].hs) :
          (conn[c].hs[h].route = "receive" /\ conn[c].hs[h].pc = "done")
              => /\ conn[c].hs[h].wseq > 0
                 /\ \E k \in 1..Len(conn[c].out) :
                       /\ conn[c].out[k].status = 200
                       /\ conn[c].out[k].data.sha = conn[c].hs[h].sha

\* two overlapping requests to branch m, of the diverged commits c2 and c3, have both
\* completed, and the one whose write came second had been dispatched before the
\* other one wrote
C9_Witness ==
    \E c, d \in DOMAIN conn :
        /\ conn[c].hs # <<>> /\ conn[d].hs # <<>>
        /\ conn[c].hs[1].pc = "done" /\ conn[d].hs[1].pc = "done"
        /\ conn[c].hs[1].ref = <<"m">> /\ conn[d].hs[1].ref = <<"m">>
        /\ conn[c].hs[1].sha = c2 /\ conn[d].hs[1].sha = c3
        /\ conn[c].hs[1].wseq < conn[d].hs[1].wseq
        /\ conn[d].hs[1].start < conn[c].hs[1].wseq
        /\ hostRefs[<<"m">>] = c3

\* C8: when fetchFromPeer has returned, every ref the peer reported whose transfer
\* did not fail resolves locally to the reported sha, whatever it was before.
C8_ForceOverwrite ==
    ft.pc = "returned"
        => \A k \in 1..Len(ft.refs) :
              ft.refs[k].name \notin ft.failed
                  => /\ ft.refs[k].name \in DOMAIN localRefs
                     /\ localRefs[ft.refs[k].name] = ft.refs[k].sha

\* branch m was at the diverged commit c3 and the peer reported it at c2
C8_Witness ==
    /\ ft.pc = "returned"
    /\ <<"m">> \in DOMAIN ft.before
    /\ ft.before[<<"m">>] = c3
    /\ <<"m">> \notin ft.failed
    /\ localRefs[<<"m">>] = c2

\* C10: a failure on one ref leaves that local ref as it was and does not end the
\* loop: the call never throws once the loop has begun, every reported ref is
\* processed, and the full list of reported refs is returned.
C10_PerRefIsolation ==
    /\ ft.pc = "threw" => ft.i = 0
    /\ \A name \in ft.failed :
          IF name \in DOMAIN ft.before
          THEN name \in DOMAIN localRefs /\ localRefs[name] = ft.before[name]
          ELSE name \notin DOMAIN localRefs
    /\ ft.pc = "returned"
          => /\ ft.result = ft.refs
             /\ \A k \in 1..Len(ft.refs) : ft.refs[k].name \in ft.failed \cup ft.wrote

\* the first reported ref failed, a later one was written, and the call returned
C10_Witness ==
    /\ ft.pc = "returned"
    /\ Len(ft.refs) >= 2
    /\ ft.refs[1].name \in ft.failed
    /\ ft.refs[2].name \in ft.wrote
    /\ localRefs[ft.refs[2].name] = ft.refs[2].sha

AllResolve ==
    \A k \in 1..Len(ft.refs) :
        /\ ft.refs[k].name \in DOMAIN localRefs
        /\ localRefs[ft.refs[k].name] = ft.refs[k].sha

\* C12: cloneFromPeer is all-or-nothing: when it has failed no directory repoName is
\* left behind that was not there before, and when it has succeeded every ref the
\* peer reported resolves locally to the peer's sha.
C12_CloneAllOrNothing ==
    /\ (ct.pc = "threw" /\ ~ct.existed) => ct.name \notin dirs
    /\ ct.pc = "done" => AllResolve

\* C16: cloneFromPeer on a repoName whose directory exists throws the 'already
\* exists' error once it has looked for the directory, and it calls no peer and
\* leaves the directory's refs and objects as they were.
C16_CloneRefusesExisting ==
    /\ (ct.checked /\ ct.existed)
          => ct.pc = "threw" /\ ct.error = "already exists locally"
    /\ (ct.pc # "idle" /\ ct.existed)
          => /\ ft = IdleFetch
             /\ localRefs = ct.beforeRefs
             /\ localObjs = ct.beforeObjs
             /\ ct.name \in dirs

\* the directory B held branch m at c2 and the call was refused
C16_Witness ==
    /\ ct.pc = "threw"
    /\ ct.existed
    /\ ct.error = "already exists locally"
    /\ <<"m">> \in DOMAIN localRefs
    /\ localRefs[<<"m">>] = c2

\* C17: cloneFromPeer of a repoName that did not exist, from a peer whose refs all
\* transfer, creates the repository with every ref at the peer's sha; the checkout is
\* of the first ref the peer listed, and when it fails the clone still succeeds.
C17_CloneCheckout ==
    /\ (ct.pc = "done" /\ ft.failed = {})
          => /\ ct.name \in dirs
             /\ AllResolve
             /\ ct.checkout = "ok"
                   => /\ ct.head = ft.refs[1].name
                      /\ ct.tree = ft.refs[1].sha
    /\ ct.checkout # "none" => ct.pc = "done"

\* two refs transferred and the first listed, d at c3, is checked out
C17_Witness ==
    /\ ct.pc = "done"
    /\ ft.failed = {}
    /\ Len(ft.refs) = 2
    /\ ft.refs[1] = [name |-> <<"d">>, sha |-> c3]
    /\ ct.checkout = "ok"
    /\ ct.head = <<"d">>
    /\ ct.tree = c3

\* C13: pushToPeer is all-or-nothing: when it has reported success the peer's ref
\* equals the pushed sha, and when it has reported failure the peer's refs and
\* object store are as they were before the call.
C13_PushAllOrNothing ==
    /\ pt.pc = "resolved"
          => pt.branch \in DOMAIN hostRefs /\ hostRefs[pt.branch] = pt.sha
    /\ pt.pc = "threw"
          => hostRefs = pt.beforeRefs /\ hostObjs = pt.beforeObjs

\* C14: a fetchFromPeer that has been called ends, by returning or by throwing, also
\* when the peer accepts the connection and never answers.
C14_CallsTerminate ==
    (ft.pc = "refs") ~> (ft.pc \in {"returned", "threw"})

(***************************************************************************)
(* Claims about hosting                                                    *)
(***************************************************************************)
\* C15: at most one listener is bound; startServer called while a server is active
\* creates no listener and leaves _server and the bound directory as they were, and
\* stopServer called while none is active changes nothing.
C15_SingleListener ==
    /\ Cardinality(server.bound) <= 1
    /\ (server.op = "start" /\ server.before.listener # 0)
          => Snapshot(server) = server.before
    /\ (server.op = "stop" /\ server.before.listener = 0)
          => Snapshot(server) = server.before

\* startServer("B") was called while the server bound to "A" was active
C15_Witness ==
    /\ server.op = "start"
    /\ server.arg = "B"
    /\ server.before.listener # 0
    /\ server.dir = "A"
    /\ Cardinality(server.bound) = 1

(***************************************************************************)
(* Claims about the routes                                                 *)
(***************************************************************************)
\* the body of a POST /api/receive is not valid JSON or lacks ref, sha or pack
Lacking(body) ==
    \/ JsonNull(body)
    \/ JsonParse(body) = <<>>
    \/ \E name \in {<<"r", "e", "f">>, <<"s", "h", "a">>, <<"p", "a", "c", "k">>} :
          Field(JsonParse(body)[1], name) = <<>>

IsReceive(req) == req.method = POST /\ req.pathname = PathReceive

\* C18: a POST /api/receive whose body is not valid JSON or lacks ref, sha or pack has
\* been answered 400 once it is dispatched, and no pack is stored and no ref changed.
C18_ReceiveRejects400 ==
    \A c \in DOMAIN conn :
        (conn[c].reqs # <<>> /\ IsReceive(conn[c].reqs[1]) /\ Lacking(conn[c].reqs[1].body))
            => /\ \E k \in 1..Len(conn[c].out) : conn[c].out[k].status = 400
               /\ hostRefs = [n \in {<<"m">>} |-> c1]
               /\ hostObjs = {c1}

\* the done /api/receive handlers, each with the 200 it sent
Answered ==
    UNION {{<<c, h>> : h \in {k \in 1..Len(conn[c].hs) :
                                 /\ conn[c].hs[k].route = "receive"
                                 /\ conn[c].hs[k].pc = "done"
                                 /\ \E o \in 1..Len(conn[c].out) :
                                       /\ conn[c].out[o].status = 200
                                       /\ conn[c].out[o].data.ref = conn[c].hs[k].ref
                                       /\ conn[c].out[o].data.sha = conn[c].hs[k].sha}} :
           c \in DOMAIN conn}

\* C19 as stated: once a POST /api/receive has been answered 200 {ok, ref, sha}, the
\* host's ref resolves to sha.
C19_RefResolvesAt200 ==
    \A a \in Answered : hostRefs[HandlerOf(a).ref] = HandlerOf(a).sha

\* C19: a POST /api/receive is answered 200 only after its ref has been force-written
\* to sha, whatever the ref held before; once it is answered the ref resolves to sha
\* unless a later /api/receive has written the same ref since.
C19_WriteBefore200 ==
    /\ \A c \in DOMAIN conn : \A h \in 1..Len(conn[c].hs) :
          (conn[c].hs[h].route = "receive" /\ conn[c].hs[h].wseq = 0)
              => conn[c].out = <<>>
    /\ \A a \in Answered :
          /\ HandlerOf(a).wseq > 0
          /\ HandlerOf(a).ref \in DOMAIN hostRefs
          /\ \/ hostRefs[HandlerOf(a).ref] = HandlerOf(a).sha
             \/ \E v \in Writers : /\ HandlerOf(v).ref = HandlerOf(a).ref
                                   /\ HandlerOf(v).wseq > HandlerOf(a).wseq

\* branch m held the diverged commit c2, written by an earlier request, when a request
\* for c3 wrote it and was answered 200
C19_Witness ==
    \E a, b \in Answered :
        /\ HandlerOf(a).ref = <<"m">> /\ HandlerOf(a).sha = c3
        /\ HandlerOf(b).ref = <<"m">> /\ HandlerOf(b).sha = c2
        /\ HandlerOf(b).wseq < HandlerOf(a).wseq
        /\ hostRefs[<<"m">>] = c3
        /\ {c2, c3} \subseteq hostObjs

\* C20: once the git.log of a GET /api/pack for a ref with no commits in the bound
\* repository (a branch that does not exist there) has settled, the request has been
\* answered 404 with an error field.
C20_PackMissing404 ==
    \A c \in DOMAIN conn : \A h \in 1..Len(conn[c].hs) :
        (/\ conn[c].hs[h].route = "pack"
         /\ conn[c].hs[h].ref \notin DOMAIN hostRefs
         /\ conn[c].hs[h].pc # "log")
            => \E k \in 1..Len(conn[c].out) :
                  conn[c].out[k].status = 404 /\ conn[c].out[k].error # ""

\* (method, path) is one of the four routes of dispatch
Routed(req) ==
    \/ req.method = GET /\ req.pathname \in {PathHealth, PathRefs, PathPack}
    \/ req.method = POST /\ req.pathname = PathReceive

\* C21: once all bytes of a request whose (method, path) is none of the four routes
\* have arrived, malformed request line included, it has been answered 404 with an
\* error naming the method and the path, and no repository state has changed.
C21_NoRoute404 ==
    \A c \in DOMAIN conn :
        (/\ conn[c].stream # <<>>
         /\ conn[c].pos = Len(conn[c].stream)
         /\ ~Routed(Unsplit(conn[c].stream)))
            => /\ \E k \in 1..Len(conn[c].out) :
                     /\ conn[c].out[k].status = 404
                     /\ conn[c].out[k].data =
                           [error |-> NoRoute(Unsplit(conn[c].stream).method,
                                              Unsplit(conn[c].stream).pathname)]
               /\ hostRefs = [n \in {<<"m">>} |-> c1]
               /\ hostObjs = {c1}

(***************************************************************************)
(* Claims about the queue under failures, restarts and credentials         *)
(***************************************************************************)
\* C22: flushPushQueue never rejects: whatever pushes fail and whatever reads and
\* writes of the queue storage fail, it goes on to return { succeeded, failed },
\* which together count every entry of the queue it read.
C22_FlushNeverThrows ==
    \A f \in DOMAIN fl :
        /\ fl[f].pc # "rejected"
        /\ fl[f].pc = "done" => fl[f].succeeded + fl[f].failed = Len(fl[f].queue)

\* a flush has returned after a failed push, a failed storage read and a failed
\* storage write during dequeue
C22_Witness ==
    \E f \in DOMAIN fl :
        /\ fl[f].pc = "done"
        /\ fl[f].faults = {"read", "write"}
        /\ Fails(fl[f].log) # {}
        /\ fl[f].failed >= 2

C24_TokenAtFlush ==
    [][/\ \A k \in 1..Len(storage') :
             DOMAIN storage'[k] = {"id", "dir", "repoName", "queuedAt"}
       /\ \A f \in DOMAIN fl :
             /\ (fl[f].pc \in {"idle", "done"} /\ fl'[f].pc = "getQueue")
                   => fl'[f].token = IF creds.token = "" THEN "null" ELSE creds.token
             /\ Len(fl'[f].log) > Len(fl[f].log)
                   => /\ fl'[f].token = fl[f].token
                      /\ fl'[f].log[Len(fl'[f].log)].token = fl[f].token]_vars

\* an entry was enqueued before the saveCreds that replaced the token t1 by t2, and
\* the flush called after that has pushed the entry with t2
C24_Witness ==
    \E f \in DOMAIN fl :
        /\ fl[f].log # <<>>
        /\ fl[f].log[1].token = "t2"
        /\ fl[f].queue[1].queuedAt < creds.since
        /\ creds.prev = "t1"
        /\ creds.token = "t2"

(***************************************************************************)
(* Claims about connections                                                *)
(***************************************************************************)
\* C25: a failure while a request is served, or a socket error, never stops the
\* listener: the bound listeners change only through startServer and stopServer, and
\* a connection whose request has arrived in full after that is answered.
C25_ListenerSurvives ==
    /\ [][server'.bound # server.bound => server'.op \in {"start", "stop"}]_vars
    /\ [](\A c \in DOMAIN conn :
            (conn[c].stream = ReqHealth /\ conn[c].pos = Len(conn[c].stream))
                => \E k \in 1..Len(conn[c].out) : conn[c].out[k].status = 200)

\* C26: with the chunks of several connections interleaved in any order, what a
\* connection has buffered is the bytes it has received itself, and the request it
\* dispatches is the one it dispatches when its bytes arrive alone.
C26_PrivateFraming ==
    \A c \in DOMAIN conn :
        /\ Len(conn[c].reqs) <= 1
        /\ conn[c].reqs = <<>>
              => conn[c].buffer = Utf8Decode(SubSeq(conn[c].stream, 1, conn[c].pos))
        /\ conn[c].reqs # <<>> => conn[c].reqs[1] = Unsplit(conn[c].stream)

\* one connection has dispatched its POST while another, sending a different request,
\* is between two of its chunks
C26_Witness ==
    \E c, d \in DOMAIN conn :
        /\ conn[c].stream = ReqRecvNoSha
        /\ conn[c].reqs # <<>>
        /\ conn[d].stream = ReqNoRoute
        /\ conn[d].pos > 0
        /\ conn[d].reqs = <<>>
        /\ conn[d].buffer # <<>>

\* the bytes of the body that connection cn has received: those after the first
\* CRLF CRLF of its stream, up to pos
BodyBytesReceived(cn, pos) == pos - (IndexOf(cn.stream, CRLFCRLF) + 3)

\* the Content-Length a request declares: parseInt's number, 0 for NaN
Declared(contentLength) == IF contentLength = <<>> THEN 0 ELSE contentLength[1]

\* C27: the first request of a connection is handed to the dispatcher only when the
\* bytes received hold CRLF CRLF and, after it, at least Content-Length bytes (0 when
\* the header is absent or not a number); a chunk before that only extends the buffer
\* and no response is sent.
C27_FramerWaits ==
    [][\A c \in DOMAIN conn :
          /\ (conn[c].reqs = <<>> /\ conn'[c].reqs # <<>>)
                => /\ IndexOf(conn[c].stream, CRLFCRLF) > 0
                   /\ BodyBytesReceived(conn[c], conn'[c].pos)
                         >= Declared(conn'[c].reqs[1].contentLength)
          /\ (conn[c].state = "open" /\ conn'[c].reqs = <<>> /\ conn'[c].pos > conn[c].pos)
                => /\ conn'[c].out = <<>>
                   /\ conn'[c].hs = <<>>
                   /\ Len(conn'[c].buffer) > Len(conn[c].buffer)]_vars

\* C28: POST /api/receive writes the ref only when its pack has been stored and
\* indexed; a request whose writeFile or indexPack fails writes no ref, then or later,
\* and is never answered 200.
C28_RefAfterPack ==
    [][\A c \in DOMAIN conn : \A h \in 1..Len(conn[c].hs) :
          conn[c].hs[h].route = "receive" =>
             /\ (conn[c].hs[h].wseq = 0 /\ conn'[c].hs[h].wseq > 0)
                   => /\ conn[c].hs[h].pc = "writeRef"
                      /\ PackValid(conn[c].hs[h].pack)
                      /\ PackCommits(conn[c].hs[h].pack) \subseteq hostObjs
             /\ (conn[c].hs[h].pc \in {"exists", "writeFile", "indexPack"}
                    /\ conn'[c].hs[h].pc = "rejected")
                   => /\ hostRefs' = hostRefs
                      /\ conn'[c].hs[h].wseq = 0
                      /\ conn'[c].out = <<>>
             /\ conn[c].hs[h].pc = "rejected"
                   => /\ conn'[c].hs[h] = conn[c].hs[h]
                      /\ conn'[c].out = conn[c].out]_vars

\* C29: no peer sync operation removes an object: the commits that the host's and the
\* fetching device's repository can read never shrink, whatever the refs point at.
C29_ObjectsNeverShrink ==
    [][hostObjs \subseteq hostObjs' /\ localObjs \subseteq localObjs']_vars

\* C30: a connectivity event starts flushPushQueue, once, exactly when the last event
\* had reported the device offline and this one reports it online; the first event,
\* an online event after an online one and an offline event start no flush.
C30_FlushOnReconnect ==
    [][LET started == {f \in DOMAIN fl : fl[f].pc \in {"idle", "done"}
                                           /\ fl'[f].pc = "getQueue"}
       IN  IF wasOnline = "offline" /\ wasOnline' = "online"
           THEN Cardinality(started) = 1
           ELSE started = {}]_vars

\* the device has come back online twice, a flush is still running from the first
\* time and the second one has just been started
C30_Witness ==
    /\ wasOnline = "online"
    /\ \E f, g \in DOMAIN fl :
          /\ fl[f].pc = "getQueue"
          /\ fl[g].pc \in {"push", "deqRead", "deqWrite", "finalRead"}

(***************************************************************************)
(* Claims about interleavings of the queue operations                      *)
(***************************************************************************)
\* C31: whatever the interleaving of the reads and writes of enqueueRepo, dequeueRepo
\* and flushPushQueue, the persisted queue never holds two entries of the same dir.
C31_OneEntryPerDir ==
    \A a, b \in 1..Len(storage) : a # b => storage[a].dir # storage[b].dir

\* two enqueueRepo calls for dir 1 have both written, a dequeueRepo of a flush has
\* written as well, and the queue holds dir 1 once
C31_Witness ==
    /\ clock >= 2
    /\ \E f \in DOMAIN fl : fl[f].succeeded > 0
    /\ Len(storage) = 1
    /\ storage[1].dir = 1

\* C32: an entry that an enqueueRepo has put in the persisted queue stays there until
\* a push of its dir has succeeded: no write of another enqueueRepo or of a dequeueRepo
\* for another dir takes it out.
C32_NoEnqueueLost ==
    [][\A dir \in Repos :
          (HasDir(storage, dir) /\ ~HasDir(storage', dir)) => dir \in pushedSince']_vars

(***************************************************************************)
(* Claims about the hosting session                                        *)
(***************************************************************************)
\* C33: every dispatched request runs against a repository directory that is not
\* null and is the one given to the startServer call whose listener accepted the
\* request's connection, whatever stopServer and startServer calls came in between.
C33_DispatchDir ==
    \A c \in DOMAIN conn : \A k \in 1..Len(conn[c].ran) :
        conn[c].ran[k] # "null" /\ conn[c].ran[k] = conn[c].accepted

(***************************************************************************)
(* Claims about refs and objects                                           *)
(***************************************************************************)
\* C34: whenever fetchFromPeer or POST /api/receive gives a branch a new value, the
\* commit it now names can be read from that repository's object store.
C34_RefIntegrity ==
    [][/\ \A n \in DOMAIN localRefs' :
             (n \notin DOMAIN localRefs \/ localRefs[n] # localRefs'[n])
                => localRefs'[n] \in localObjs'
       /\ \A n \in DOMAIN hostRefs' :
             (n \notin DOMAIN hostRefs \/ hostRefs[n] # hostRefs'[n])
                => hostRefs'[n] \in hostObjs']_vars

(***************************************************************************)
(* Claims about the pending count and the flush on reconnect               *)
(***************************************************************************)
\* C35: whenever no queuePush, flushPushQueue or loadPendingCount call is in progress,
\* pendingPushCount is the number of entries of the persisted queue.
C35_CountMatchesQueue ==
    (RunningFlushers = {} /\ FreeEnqueuers = DOMAIN qp)
        => pendingPushCount = Len(storage)

(***************************************************************************)
(* The app from its start over any persisted queue, with a fair listener   *)
(* and fair flush steps; a push fails only while the device is offline and *)
(* nobody presses the queue banner.                                        *)
(***************************************************************************)
AutoFlushNext ==
    \/ \E online \in BOOLEAN : NetEvent(online)
    \/ \E f \in DOMAIN fl : FlushGetQueue(f)
    \/ \E f \in DOMAIN fl : FlushPushOk(f)
    \/ \E f \in DOMAIN fl : ~isOnline /\ FlushPushFail(f)
    \/ \E f \in DOMAIN fl : FlushDeqRead(f)
    \/ \E f \in DOMAIN fl : FlushDeqWrite(f)
    \/ \E f \in DOMAIN fl : FlushFinalRead(f)
    \/ \E f \in DOMAIN fl : FlushFinalSet(f)

FlushSteps(f) ==
    \/ FlushGetQueue(f)
    \/ FlushPushOk(f)
    \/ FlushDeqRead(f)
    \/ FlushDeqWrite(f)
    \/ FlushFinalRead(f)
    \/ FlushFinalSet(f)

SpecAutoFlush ==
    /\ ReconnectInit
    /\ [][AutoFlushNext]_vars
    /\ WF_vars(NetEvent(TRUE))
    /\ \A f \in Flushers : WF_vars(FlushSteps(f))

\* C36: if the device is online from some point on, every entry of the persisted
\* queue, also one persisted before the app started, is eventually removed from
\* the queue with no user action.
C36_EventuallyFlushed ==
    (<>[]isOnline) => \A dir \in 1..AppDirs : (HasDir(storage, dir) ~> ~HasDir(storage, dir))

(***************************************************************************)
(* Claims about what a fetch leaves alone                                  *)
(***************************************************************************)
\* C37: a step of fetchFromPeer deletes no local branch, creates or changes only a
\* branch named in the peer's ref list, and a call that throws has changed no
\* local ref.
C37_FetchFrame ==
    [][/\ \A n \in DOMAIN localRefs : n \in DOMAIN localRefs'
       /\ \A n \in DOMAIN localRefs' :
              (n \notin DOMAIN localRefs \/ localRefs'[n] # localRefs[n])
                  => /\ \E k \in 1..Len(ft.refs) : ft.refs[k].name = n
                     /\ n \in ft'.wrote
       /\ ft'.pc = "threw" => (localRefs' = localRefs /\ ft'.wrote = {})]_vars

\* a call has returned after writing branch d next to a local branch m that the
\* peer did not list
C37_Witness ==
    /\ ft.pc = "returned"
    /\ ft.wrote = {<<"d">>}
    /\ \A k \in 1..Len(ft.refs) : ft.refs[k].name # <<"m">>
    /\ DOMAIN localRefs = {<<"m">>, <<"d">>}

(***************************************************************************)
(* Claims about a listener that reports an error                           *)
(***************************************************************************)
\* C38: after the listener has reported an error the session is not running:
\* whenever isServerRunning() is true, the listener of the session holds the port.
C38_ErrorEndsSession ==
    ServerActive(server) => server.listener \in server.bound

====
